---- MODULE Spec2Model ----
(***************************************************************************)
(* Context Dropper: the selection store (db_manager.py), the inclusion     *)
(* resolver and the project-tree renderer (context_generator.py), and the  *)
(* drop_context handler that runs them (context_dropper.py).               *)
(*                                                                         *)
(* A file or directory name is a sequence of one-character strings, a path *)
(* is the sequence of its components below the filesystem root "/", so the *)
(* string tests of the source (startswith(root + os.sep), endswith(ext),   *)
(* lower(), normcase(), sort()) are computed character by character.       *)
(***************************************************************************)
EXTENDS Integers, Sequences, FiniteSets, TLC

VARIABLES os_name, fs, selections, categories, result,
          projects, foreign_keys, window, icon

\* the projects table and the build option of the database, the main window,
\* the hover icon
application == <<projects, foreign_keys, window, icon>>

vars == <<os_name, fs, selections, categories, result, projects, foreign_keys, window, icon>>

(***************************************************************************)
(* Bounds of the model.                                                    *)
(***************************************************************************)
MaxSelections == 2

\* the store on its own: categories ever created
MaxCategories == 1

\* the disk that changes under the program: selections of the project
MaxDiskSelections == 2

\* the project handlers: projects ever created, categories ever created
MaxProjects == 2
MaxProjectCategories == 2

(***************************************************************************)
(* Characters.  AsciiOrder lists the characters used in ASCII order, so    *)
(* the index of a character orders it as Python orders code points.        *)
(***************************************************************************)
AsciiOrder ==
  << " ", "(", ")", ".", "/", "0", "1", "2", "3", "4", "5", "6", "7", "8", "9", ":",
     "A", "B", "C", "D", "E", "F", "G", "H", "I", "J", "K", "L", "M",
     "N", "O", "P", "Q", "R", "S", "T", "U", "V", "W", "X", "Y", "Z",
     "\\", "_",
     "a", "b", "c", "d", "e", "f", "g", "h", "i", "j", "k", "l", "m",
     "n", "o", "p", "q", "r", "s", "t", "u", "v", "w", "x", "y", "z" >>

Chars == {AsciiOrder[i] : i \in 1..Len(AsciiOrder)}

Ord == [c \in Chars |-> CHOOSE i \in 1..Len(AsciiOrder) : AsciiOrder[i] = c]

\* str.lower() on one character
LowerChar == [c \in Chars |->
                IF Ord[c] >= Ord["A"] /\ Ord[c] <= Ord["Z"]
                THEN AsciiOrder[Ord[c] + (Ord["a"] - Ord["A"])] ELSE c]

\* str.lower() on a string
lower(s) == [i \in 1..Len(s) |-> LowerChar[s[i]]]

\* str.startswith / str.endswith
startswith(s, t) == Len(t) <= Len(s) /\ \A i \in 1..Len(t) : s[i] = t[i]
endswith(s, t) == Len(t) <= Len(s) /\ \A i \in 1..Len(t) : s[Len(s) - Len(t) + i] = t[i]

\* str.strip(): drop leading and trailing blanks
RECURSIVE lstrip(_)
lstrip(s) == IF s # <<>> /\ s[1] = " " THEN lstrip(Tail(s)) ELSE s
RECURSIVE rstrip(_)
rstrip(s) == IF s # <<>> /\ s[Len(s)] = " " THEN rstrip(SubSeq(s, 1, Len(s) - 1)) ELSE s
strip(s) == rstrip(lstrip(s))

\* Python's < on strings: lexicographic on code points, a proper prefix first
RECURSIVE str_lt(_, _)
str_lt(a, b) ==
  IF b = <<>> THEN FALSE
  ELSE IF a = <<>> THEN TRUE
  ELSE IF a[1] # b[1] THEN Ord[a[1]] < Ord[b[1]]
  ELSE str_lt(Tail(a), Tail(b))

\* list.sort() of a set of distinct strings
RECURSIVE sorted(_)
sorted(S) ==
  IF S = {} THEN <<>>
  ELSE LET m == CHOOSE x \in S : \A y \in S \ {x} : str_lt(x, y)
       IN <<m>> \o sorted(S \ {m})

(***************************************************************************)
(* os.path.normcase: the identity on POSIX, lower-casing on Windows (the   *)
(* separator replacement of Windows acts between components and is not     *)
(* visible on a component sequence).                                       *)
(***************************************************************************)
normcase(plat, s) == IF plat = "nt" THEN lower(s) ELSE s

normcase_path(plat, p) == [i \in 1..Len(p) |-> normcase(plat, p[i])]

lower_path(p) == [i \in 1..Len(p) |-> lower(p[i])]

\* p.startswith(q + os.sep) on normalised paths: q is a proper ancestor of p
under(p, q) == Len(q) < Len(p) /\ \A i \in 1..Len(q) : p[i] = q[i]

\* os.path.relpath(p, q) for p at or under q ("." is the empty sequence)
relpath(p, q) == SubSeq(p, Len(q) + 1, Len(p))

basename(p) == IF p = <<>> THEN <<>> ELSE p[Len(p)]

dirname(p) == SubSeq(p, 1, Len(p) - 1)

\* os.sep
sep(plat) == IF plat = "nt" THEN "\\" ELSE "/"

\* os.sep.join(p)
RECURSIVE join(_, _)
join(plat, p) ==
  IF p = <<>> THEN <<>>
  ELSE IF Len(p) = 1 THEN p[1]
  ELSE p[1] \o <<sep(plat)>> \o join(plat, Tail(p))

\* the string of an absolute path
path_str(plat, p) == <<sep(plat)>> \o join(plat, p)

(***************************************************************************)
(* Names.                                                                  *)
(***************************************************************************)
n_pycache == <<"_","_","p","y","c","a","c","h","e","_","_">>
n_node_modules == <<"n","o","d","e","_","m","o","d","u","l","e","s">>
n_target == <<"t","a","r","g","e","t">>
n_build == <<"b","u","i","l","d">>
n_dotvenv == <<".","v","e","n","v">>
n_venv == <<"v","e","n","v">>
n_dotgit == <<".","g","i","t">>
n_dist == <<"d","i","s","t">>
n_DS_Store == <<".","D","S","_","S","t","o","r","e">>
n_context_txt == <<"c","o","n","t","e","x","t",".","t","x","t">>

DEFAULT_TREE_IGNORED_NAMES ==
  {n_pycache, n_node_modules, n_target, n_build, n_dotvenv, n_venv,
   n_dotgit, n_dist, n_DS_Store}

context_txt_leaf_name == n_context_txt

n_Proj == <<"P","r","o","j">>
n_ext == <<"e","x","t">>
n_a_py == <<"a",".","p","y">>
n_b_txt == <<"b",".","t","x","t">>
n_old_py == <<"o","l","d",".","p","y">>
n_dotenv == <<".","e","n","v">>
n_NOTES_MD == <<"N","O","T","E","S",".","M","D">>
n_MD == <<"M","D">>
n_sub == <<"s","u","b">>
n_c_py == <<"c",".","p","y">>
n_notes_md == <<"n","o","t","e","s",".","m","d">>
n_image_png == <<"i","m","a","g","e",".","p","n","g">>
n_md == <<"m","d">>
n_out_py == <<"o","u","t",".","p","y">>
n_x_txt == <<"x",".","t","x","t">>
n_k_py == <<"k",".","p","y">>
n_d1 == <<"d","1">>
n_d2 == <<"d","2">>
n_d3 == <<"d","3">>
n_d4 == <<"d","4">>
n_deep_py == <<"d","e","e","p",".","p","y">>
n_e_py == <<"e",".","p","y">>
n_in == <<"i","n">>
n_up == <<"u","p">>

(***************************************************************************)
(* The filesystem.  A node is [path, is_dir]; paths keep their original    *)
(* case.  The project lives in /Proj, /ext lies outside it.                *)
(***************************************************************************)
project_path == <<n_Proj>>

Dir(p) == [path |-> p, is_dir |-> TRUE, listable |-> TRUE]
File(p) == [path |-> p, is_dir |-> FALSE, listable |-> TRUE]

\* a directory that os.listdir and os.scandir refuse with OSError
Unlistable(p) == [path |-> p, is_dir |-> TRUE, listable |-> FALSE]

InProj(rel) == project_path \o rel

context_txt_node == File(InProj(<<n_context_txt>>))
old_py_node == File(InProj(<<n_old_py>>))
old_ext_node == File(<<n_ext, n_old_py>>)

FixedNodes ==
  { Dir(project_path),
    File(InProj(<<n_a_py>>)), File(InProj(<<n_b_txt>>)), File(InProj(<<n_dotenv>>)),
    File(InProj(<<n_NOTES_MD>>)), File(InProj(<<n_MD>>)),
    Dir(InProj(<<n_sub>>)),
    File(InProj(<<n_sub, n_c_py>>)), File(InProj(<<n_sub, n_notes_md>>)),
    File(InProj(<<n_sub, n_image_png>>)), File(InProj(<<n_sub, n_md>>)),
    File(InProj(<<n_sub, n_context_txt>>)),
    Dir(InProj(<<n_build>>)),
    File(InProj(<<n_build, n_out_py>>)), File(InProj(<<n_build, n_x_txt>>)),
    Dir(InProj(<<n_dotgit>>)), File(InProj(<<n_dotgit, n_k_py>>)),
    Dir(InProj(<<n_d1>>)), Dir(InProj(<<n_d1, n_d2>>)), Dir(InProj(<<n_d1, n_d2, n_d3>>)),
    Dir(InProj(<<n_d1, n_d2, n_d3, n_d4>>)),
    File(InProj(<<n_d1, n_d2, n_d3, n_d4, n_deep_py>>)),
    File(InProj(<<n_DS_Store>>)),
    Dir(<<n_ext>>), File(<<n_ext, n_e_py>>), File(<<n_ext, n_dotenv>>),
    Dir(<<n_ext, n_in>>), File(<<n_ext, n_in, n_e_py>>),
    Dir(<<n_ext, n_up>>), File(<<n_ext, n_up, n_e_py>>) }

\* Nodes that come and go: the artifact is written by drop_context, the two
\* old.py files can be deleted by the user outside the program.
OptionalNodes == {context_txt_node, old_py_node, old_ext_node}

AllNodes == FixedNodes \cup OptionalNodes


(***************************************************************************)
(* Filesystem queries.  fsnow is the set of nodes present.  On Windows a   *)
(* lookup ignores letter case, on POSIX it does not.                       *)
(***************************************************************************)
same_file(plat, p, q) ==
  IF plat = "nt"
  THEN /\ Len(p) = Len(q)
       /\ \A i \in 1..Len(p) :
            \/ p[i] = q[i]
            \/ /\ Len(p[i]) = Len(q[i])
               /\ \A j \in 1..Len(p[i]) : p[i][j] = q[i][j] \/ LowerChar[p[i][j]] = LowerChar[q[i][j]]
  ELSE p = q

lookup(plat, fsnow, p) == {n \in fsnow : same_file(plat, n.path, p)}

\* os.path.exists
exists(plat, fsnow, p) == lookup(plat, fsnow, p) # {}

\* os.path.isdir
isdir(plat, fsnow, p) == \E n \in lookup(plat, fsnow, p) : n.is_dir

\* os.listdir: the original-case names of the children of directory d
listdir(fsnow, d) == {basename(n.path) : n \in {m \in fsnow : Len(m.path) = Len(d) + 1 /\ under(m.path, d)}}

\* os.listdir(d) does not raise
can_list(fsnow, d) == Unlistable(d) \notin fsnow

child(fsnow, d, name) == CHOOSE n \in fsnow : n.path = d \o <<name>>

(***************************************************************************)
(* file_types.  The column holds None or a string; the model keeps the     *)
(* string as the list that split(',') returns, and None as the empty list  *)
(* (split never returns it).  The empty string splits into one empty token.*)
(***************************************************************************)
NoneTypes == <<>>
EmptyString == << <<>> >>

\* truth value of sel['file_types']
truthy(ft) == ft # NoneTypes /\ ft # EmptyString

tokens(ft) == {strip(ft[i]) : i \in 1..Len(ft)} \ {<<>>}

\* allowed_extensions: the tokens starting with '.', lower-cased
allowed_extensions(ft) == {lower(t) : t \in {u \in tokens(ft) : startswith(u, <<".">>)}}

\* exact_filenames_normcased: the other tokens, normcased
exact_filenames_normcased(plat, ft) ==
  {normcase(plat, t) : t \in {u \in tokens(ft) : ~startswith(u, <<".">>)}}

(***************************************************************************)
(* The inclusion resolver: generate_context_file_data, lines 228-296.      *)
(***************************************************************************)
normalized_original_project_path == project_path

normcased_project_path(plat) == normcase_path(plat, normalized_original_project_path)

context_txt_abs_path_normcased(plat) ==
  normcase_path(plat, normalized_original_project_path \o <<context_txt_leaf_name>>)

\* dirs[:] = [d for d in dirs if d not in DEFAULT_TREE_IGNORED_NAMES and not d.startswith('.')]
walk_keeps_dir(d) == d \notin DEFAULT_TREE_IGNORED_NAMES /\ ~startswith(d, <<".">>)

\* walk that lists the top directory only
walk_top_only(fsnow, top) ==
  {top \o <<nm>> : nm \in {x \in listdir(fsnow, top) : ~child(fsnow, top, x).is_dir}}

\* os.walk(top) with the pruning above: the original-case paths of the files
\* found.  os.walk is called without onerror: a directory that cannot be
\* scanned yields nothing.
RECURSIVE walk(_, _)
walk(fsnow, top) ==
  IF ~can_list(fsnow, top) THEN {}
  ELSE
  LET names == listdir(fsnow, top)
      files == {top \o <<nm>> : nm \in {x \in names : ~child(fsnow, top, x).is_dir}}
      dirs == {nm \in names : child(fsnow, top, nm).is_dir /\ walk_keeps_dir(nm)}
  IN files \cup UNION {walk(fsnow, top \o <<d>>) : d \in dirs}

\* lines 264-270
include_file(plat, file_name_normcased, ft) ==
  LET exts == IF truthy(ft) THEN allowed_extensions(ft) ELSE {}
      exact == IF truthy(ft) THEN exact_filenames_normcased(plat, ft) ELSE {}
  IN IF exts = {} /\ exact = {} THEN TRUE
     ELSE IF file_name_normcased \in exact THEN TRUE
     ELSE \E e \in exts : endswith(file_name_normcased, e)

\* is_context_txt with the comparison left out
is_context_txt_unchecked(plat, key) == FALSE

\* line 261 and line 284: the artifact never includes itself
is_context_txt(plat, key) == key = context_txt_abs_path_normcased(plat)

\* display_path_for_header left at the value of line 273
dir_display_absolute(plat, sel, key) == [kind |-> "absolute", path |-> key, from |-> <<>>]

\* display_path_for_header of a file found by walking a directory selection
dir_display(plat, sel, key) ==
  IF under(key, normcased_project_path(plat))
  THEN [kind |-> "relative", path |-> relpath(key, normcased_project_path(plat)), from |-> <<>>]
  ELSE IF sel.path # normcased_project_path(plat)
  THEN [kind |-> "EXTERNAL", path |-> <<basename(key)>>, from |-> <<basename(sel.path)>>]
  ELSE [kind |-> "absolute", path |-> key, from |-> <<>>]

\* display_path_for_header of a file selection
file_display(plat, sel) ==
  IF under(sel.path, normcased_project_path(plat))
  THEN [kind |-> "relative", path |-> relpath(sel.path, normcased_project_path(plat)), from |-> <<>>]
  ELSE IF sel.path # normcased_project_path(plat)
  THEN [kind |-> "EXTERNAL", path |-> <<basename(sel.path)>>, from |-> <<>>]
  ELSE [kind |-> "absolute", path |-> sel.path, from |-> <<>>]

\* header_path_for_warning without the relative form
warning_path_stored(plat, sel) == [kind |-> "absolute", path |-> sel.path]

\* header_path_for_warning
warning_path(plat, sel) ==
  IF under(sel.path, normcased_project_path(plat))
  THEN [kind |-> "relative", path |-> relpath(sel.path, normcased_project_path(plat))]
  ELSE [kind |-> "absolute", path |-> sel.path]

EmptyMap == [k \in {} |-> <<>>]

\* the keys a directory selection adds (lines 255-282)
dir_selection_keys(plat, fsnow, sel) ==
  LET top == (CHOOSE n \in lookup(plat, fsnow, sel.path) : TRUE).path
      found == walk(fsnow, top)
      kept == {f \in found :
                 /\ ~is_context_txt(plat, normcase_path(plat, f))
                 /\ include_file(plat, normcase(plat, basename(f)), sel.file_types)}
  IN {normcase_path(plat, f) : f \in kept}

\* resolve_selection with the map rebuilt, not extended, by a directory selection
resolve_selection_rebuilding(plat, fsnow, sel, acc) ==
  IF ~exists(plat, fsnow, sel.path)
  THEN [acc EXCEPT !.warnings = Append(@, warning_path(plat, sel))]
  ELSE IF sel.is_directory
  THEN LET keys == dir_selection_keys(plat, fsnow, sel)
       IN [acc EXCEPT !.files = [k \in keys |-> dir_display(plat, sel, k)]]
  ELSE IF is_context_txt(plat, sel.path)
  THEN acc
  ELSE [acc EXCEPT !.files = [k \in {sel.path} |-> file_display(plat, sel)] @@ @]

\* one iteration of "for sel in selections" on the accumulated state
resolve_selection(plat, fsnow, sel, acc) ==
  IF ~exists(plat, fsnow, sel.path)
  THEN [acc EXCEPT !.warnings = Append(@, warning_path(plat, sel))]
  ELSE IF sel.is_directory
  THEN LET keys == dir_selection_keys(plat, fsnow, sel)
       IN [acc EXCEPT !.files = [k \in keys |-> dir_display(plat, sel, k)] @@ @]
  ELSE IF is_context_txt(plat, sel.path)
  THEN acc
  ELSE [acc EXCEPT !.files = [k \in {sel.path} |-> file_display(plat, sel)] @@ @]

RECURSIVE resolve_from(_, _, _, _, _)
resolve_from(plat, fsnow, sels, i, acc) ==
  IF i > Len(sels) THEN acc
  ELSE resolve_from(plat, fsnow, sels, i + 1, resolve_selection(plat, fsnow, sels[i], acc))

\* files_to_include and the warning lines after the loop over the selections
resolve(plat, fsnow, sels) ==
  resolve_from(plat, fsnow, sels, 1, [files |-> EmptyMap, warnings |-> <<>>])

files_to_include(plat, fsnow, sels) == resolve(plat, fsnow, sels).files

\* MainWindow.get_detailed_inclusion_map, context_dropper.py lines 968-1012:
\* the keys of included_files_map for one selection ...
inclusion_keys(plat, fsnow, sel) ==
  IF ~exists(plat, fsnow, sel.path) THEN {}
  ELSE IF sel.is_directory
  THEN LET top == (CHOOSE n \in lookup(plat, fsnow, sel.path) : TRUE).path
       IN {normcase_path(plat, f) :
             f \in {g \in walk(fsnow, top) :
                      include_file(plat, normcase(plat, basename(g)), sel.file_types)}}
  ELSE {sel.path}

\* ... and for the effective selections
get_detailed_inclusion_map(plat, fsnow, sels) ==
  UNION {inclusion_keys(plat, fsnow, sels[i]) : i \in 1..Len(sels)}


(***************************************************************************)
(* The tree renderer: generate_project_tree_summary.                       *)
(***************************************************************************)
\* s_path.startswith(normcased_project_path + os.sep) or s_path == normcased_project_path
in_project(plat, p) == under(p, normcased_project_path(plat)) \/ p = normcased_project_path(plat)

\* the key of a selection in relative_selected_paths_data ("" for the root)
rel_key(plat, p) == normcase_path(plat, relpath(p, normcased_project_path(plat)))

\* relative_selected_paths_data: a later selection with the same key overwrites
relative_selected_paths_data(plat, sels) ==
  LET idx == {i \in 1..Len(sels) : in_project(plat, sels[i].path)}
      keys == {rel_key(plat, sels[i].path) : i \in idx}
      last(k) == CHOOSE i \in idx : /\ rel_key(plat, sels[i].path) = k
                                    /\ \A j \in idx : rel_key(plat, sels[j].path) = k => j <= i
  IN [k \in keys |-> [is_directory |-> sels[last(k)].is_directory,
                      file_types |-> sels[last(k)].file_types]]

outside_project_selections(plat, sels) ==
  SelectSeq(sels, LAMBDA s : ~in_project(plat, s.path))

tree_ignored_names == DEFAULT_TREE_IGNORED_NAMES \cup {context_txt_leaf_name}

\* one selected ancestor directory of is_file_included_by_directory_filter, lines 91-112
ancestor_filter_includes(plat, details, file_name_original_case) ==
  /\ details.is_directory
  /\ \/ details.file_types = NoneTypes
     \/ normcase(plat, file_name_original_case) \in exact_filenames_normcased(plat, details.file_types)
     \/ \E e \in allowed_extensions(details.file_types) :
           endswith(normcase(plat, file_name_original_case), e)

\* The loop returns True at the first ancestor that includes the file and
\* False after the last one, so its result is a disjunction over the ancestors
\* parts[:i], i = len(parts)-1 .. 0.
is_file_included_by_directory_filter(plat, data, normcased_file_rel_path, file_name_original_case) ==
  \E i \in 0..(Len(normcased_file_rel_path) - 1) :
    LET ancestor_rel_path_normcased == normcase_path(plat, SubSeq(normcased_file_rel_path, 1, i))
    IN /\ ancestor_rel_path_normcased \in DOMAIN data
       /\ ancestor_filter_includes(plat, data[ancestor_rel_path_normcased], file_name_original_case)

\* tree_lists_entry without the exception for explicitly selected entries
tree_lists_entry_by_name(plat, data, current_dir_rel, entry_name) ==
  ~startswith(entry_name, <<".">>) /\ entry_name \notin tree_ignored_names

\* lines 119-129: which entries of a listing are rendered
tree_lists_entry(plat, data, current_dir_rel, entry_name) ==
  LET is_explicitly_selected_entry ==
        normcase_path(plat, current_dir_rel \o <<entry_name>>) \in DOMAIN data
      dotted == startswith(entry_name, <<".">>)
      ignored == entry_name \in tree_ignored_names
  IN \/ ~dotted /\ ~ignored
     \/ dotted /\ is_explicitly_selected_entry
     \/ ignored /\ is_explicitly_selected_entry

\* lines 147-155
should_mark_asterisk(plat, data, normcased_entry_rel_path, entry_name, is_dir_entry) ==
  IF normcased_entry_rel_path \in DOMAIN data THEN TRUE
  ELSE IF ~is_dir_entry
  THEN is_file_included_by_directory_filter(plat, data, normcased_entry_rel_path, entry_name)
  ELSE FALSE

\* is_ancestor_of_selected with the prefix test also taken the other way round
is_related_to_selected(data, normcased_entry_rel_path) ==
  \E sel_rel_key \in DOMAIN data :
    \/ under(sel_rel_key, normcased_entry_rel_path)
    \/ under(normcased_entry_rel_path, sel_rel_key)

\* lines 166-168 and 175-177: some selected key starts with entry + os.sep
is_ancestor_of_selected(data, normcased_entry_rel_path) ==
  \E sel_rel_key \in DOMAIN data : under(sel_rel_key, normcased_entry_rel_path)

\* f"{ft if ft else 'ALL'}"
ALL == << <<"A","L","L">> >>
dir_info(ft) == IF truthy(ft) THEN ft ELSE ALL

\* the marker and filter text appended to an entry's line, lines 157-170
entry_mark(plat, data, normcased_entry_rel_path, entry_name, is_dir_entry) ==
  IF should_mark_asterisk(plat, data, normcased_entry_rel_path, entry_name, is_dir_entry)
  THEN [mark |-> " [*]",
        info |-> IF /\ normcased_entry_rel_path \in DOMAIN data
                    /\ is_dir_entry
                    /\ data[normcased_entry_rel_path].is_directory
                 THEN <<dir_info(data[normcased_entry_rel_path].file_types)>>
                 ELSE <<>>]
  ELSE IF is_dir_entry /\ is_ancestor_of_selected(data, normcased_entry_rel_path)
  THEN [mark |-> " [...]", info |-> <<>>]
  ELSE [mark |-> "", info |-> <<>>]

\* len(prefix): the root call passes two blanks, each level adds four characters
RECURSIVE prefix_len(_)
prefix_len(prefix) ==
  IF prefix = <<>> THEN 0
  ELSE (IF prefix[1] = "  " THEN 2 ELSE 4) + prefix_len(Tail(prefix))

DepthCutoff == 12

\* should_recurse without the ancestor test
should_recurse_by_depth(data, normcased_entry_rel_path, prefix) ==
  \/ normcased_entry_rel_path \in DOMAIN data
  \/ prefix_len(prefix) < DepthCutoff

\* should_recurse without the depth test
should_recurse_always(data, normcased_entry_rel_path, prefix) == TRUE

\* lines 174-179
should_recurse(data, normcased_entry_rel_path, prefix) ==
  \/ normcased_entry_rel_path \in DOMAIN data
  \/ is_ancestor_of_selected(data, normcased_entry_rel_path)
  \/ prefix_len(prefix) < DepthCutoff

\* A rendered line.  rel and is_dir are not part of the text: they record which
\* entry the line was rendered for.
Line(kind, prefix, connector, name, m, rel, is_dir) ==
  [kind |-> kind, prefix |-> prefix, connector |-> connector, name |-> name,
   mark |-> m.mark, info |-> m.info, rel |-> rel, is_dir |-> is_dir]

RECURSIVE build_tree(_, _, _, _, _, _)
RECURSIVE tree_entries(_, _, _, _, _, _, _, _)

\* the loop "for i, entry_name_original_case in enumerate(entries)", lines 135-181
tree_entries(plat, fsnow, data, cur_abs, cur_rel, prefix, entries, i) ==
  IF i > Len(entries) THEN <<>>
  ELSE
    LET name == entries[i]
        is_last == (i = Len(entries))
        entry_abs == cur_abs \o <<name>>
        entry_rel == cur_rel \o <<name>>
        nrel == normcase_path(plat, entry_rel)
        \* the box-drawing connectors of the source, written in ASCII
        connector == IF is_last THEN "+-- " ELSE "|-- "
        is_dir_entry == child(fsnow, cur_abs, name).is_dir
        m == entry_mark(plat, data, nrel, name, is_dir_entry)
        line == Line("entry", prefix, connector, name, m, entry_rel, is_dir_entry)
        new_prefix == Append(prefix, IF is_last THEN "    " ELSE "|   ")
        below == IF is_dir_entry /\ should_recurse(data, nrel, prefix)
                 THEN build_tree(plat, fsnow, data, entry_abs, entry_rel, new_prefix)
                 ELSE <<>>
    IN <<line>> \o below \o tree_entries(plat, fsnow, data, cur_abs, cur_rel, prefix, entries, i + 1)

\* build_tree with the OSError of os.listdir not caught: the directory is
\* rendered as if it were empty
build_tree_silent(plat, fsnow, data, cur_abs, cur_rel, prefix) ==
  IF ~can_list(fsnow, cur_abs) THEN <<>>
  ELSE
  LET entries == sorted({nm \in listdir(fsnow, cur_abs) : tree_lists_entry(plat, data, cur_rel, nm)})
  IN tree_entries(plat, fsnow, data, cur_abs, cur_rel, prefix, entries, 1)

\* build_tree, lines 115-181; on OSError the line
\* "[Error listing directory: <name>]" and nothing below it
build_tree(plat, fsnow, data, cur_abs, cur_rel, prefix) ==
  IF ~can_list(fsnow, cur_abs)
  THEN <<Line("list_error", prefix, "+-- ", basename(cur_abs), [mark |-> "", info |-> <<>>],
              cur_rel, TRUE)>>
  ELSE
  LET entries == sorted({nm \in listdir(fsnow, cur_abs) : tree_lists_entry(plat, data, cur_rel, nm)})
  IN tree_entries(plat, fsnow, data, cur_abs, cur_rel, prefix, entries, 1)

\* lines 183-191
root_line(plat, data) ==
  Line("root", <<>>, "", basename(project_path),
       IF <<>> \in DOMAIN data
       THEN [mark |-> " [*]",
             info |-> IF data[<<>>].is_directory THEN <<dir_info(data[<<>>].file_types)>> ELSE <<>>]
       ELSE [mark |-> "", info |-> <<>>],
       <<>>, TRUE)

\* sorted(outside_project_selections, key=lambda s: s['path'])
RECURSIVE sorted_by_path(_, _)
sorted_by_path(plat, S) ==
  IF S = {} THEN <<>>
  ELSE LET m == CHOOSE x \in S : \A y \in S \ {x} :
                  x.path # y.path => str_lt(path_str(plat, x.path), path_str(plat, y.path))
       IN <<m>> \o sorted_by_path(plat, S \ {m})

\* outside_lines with the selections left in the order of the list
outside_lines_unsorted(plat, sels) ==
  LET srt == outside_project_selections(plat, sels)
  IN IF srt = <<>> THEN <<>>
     ELSE <<Line("outside_heading", <<>>, "", <<>>, [mark |-> "", info |-> <<>>], <<>>, FALSE)>>
          \o [i \in 1..Len(srt) |->
                Line("outside", <<>>, "", <<>>,
                     [mark |-> " [*]",
                      info |-> IF srt[i].is_directory THEN <<dir_info(srt[i].file_types)>> ELSE <<>>],
                     srt[i].path, srt[i].is_directory)]

\* lines 194-203
outside_lines(plat, sels) ==
  LET out == outside_project_selections(plat, sels)
      srt == sorted_by_path(plat, {out[i] : i \in 1..Len(out)})
  IN IF out = <<>> THEN <<>>
     ELSE <<Line("outside_heading", <<>>, "", <<>>, [mark |-> "", info |-> <<>>], <<>>, FALSE)>>
          \o [i \in 1..Len(srt) |->
                Line("outside", <<>>, "", <<>>,
                     [mark |-> " [*]",
                      info |-> IF srt[i].is_directory THEN <<dir_info(srt[i].file_types)>> ELSE <<>>],
                     srt[i].path, srt[i].is_directory)]

\* line 33: "Error: Project path '...' is not a valid directory."
not_a_valid_directory ==
  Line("not_a_valid_directory", <<>>, "", basename(project_path), [mark |-> "", info |-> <<>>],
       <<>>, FALSE)

\* generate_project_tree_summary without the test of lines 32-33
generate_project_tree_summary_unchecked(plat, fsnow, sels) ==
  LET data == relative_selected_paths_data(plat, sels)
  IN <<root_line(plat, data)>>
     \o build_tree(plat, fsnow, data, normalized_original_project_path, <<>>, <<"  ">>)
     \o outside_lines(plat, sels)

\* generate_project_tree_summary
generate_project_tree_summary(plat, fsnow, sels) ==
  IF ~isdir(plat, fsnow, project_path) THEN <<not_a_valid_directory>>
  ELSE
  LET data == relative_selected_paths_data(plat, sels)
  IN <<root_line(plat, data)>>
     \o build_tree(plat, fsnow, data, normalized_original_project_path, <<>>, <<"  ">>)
     \o outside_lines(plat, sels)


(***************************************************************************)
(* File contents.  A content is a sequence of runs [c, n]: n times the     *)
(* byte c, where c is a character or "NUL".                                *)
(***************************************************************************)
Run(c, n) == [c |-> c, n |-> n]

SniffBytes == 1024

\* f.read(size): the first size bytes
RECURSIVE read(_, _)
read(content, size) ==
  IF content = <<>> \/ size = 0 THEN <<>>
  ELSE IF content[1].n <= size THEN <<content[1]>> \o read(Tail(content), size - content[1].n)
  ELSE <<Run(content[1].c, size)>>

\* b'\x00' in chunk
has_nul(chunk) == \E i \in 1..Len(chunk) : chunk[i].c = "NUL"

\* content.strip()
RECURSIVE lstrip_content(_)
lstrip_content(content) ==
  IF content # <<>> /\ content[1].c = " " THEN lstrip_content(Tail(content)) ELSE content
RECURSIVE rstrip_content(_)
rstrip_content(content) ==
  IF content # <<>> /\ content[Len(content)].c = " "
  THEN rstrip_content(SubSeq(content, 1, Len(content) - 1)) ELSE content
strip_content(content) == rstrip_content(lstrip_content(content))

\* blanks, the name of the file's directory, a blank, the file's name, blanks
text_of(p) ==
  <<Run(" ", 2)>> \o [i \in 1..Len(basename(dirname(p))) |-> Run(basename(dirname(p))[i], 1)]
  \o <<Run(" ", 1)>> \o [i \in 1..Len(basename(p)) |-> Run(basename(p)[i], 1)]
  \o <<Run(" ", 3)>>

\* what the files of the model hold: MD has a NUL among its first bytes,
\* b.txt has its first NUL right after the sniffed bytes
content_of(p) ==
  IF p = InProj(<<n_MD>>) THEN <<Run("M", 10), Run("NUL", 1), Run("D", 5)>>
  ELSE IF p = InProj(<<n_b_txt>>) THEN <<Run(" ", 1), Run("b", SniffBytes - 1), Run("NUL", 1), Run(" ", 1)>>
  ELSE text_of(p)

\* files that cannot be opened at all (no read permission)
Unreadable == {InProj(<<n_build, n_out_py>>)}

\* the files whose second open, for the text read, may fail although the
\* sniff succeeded (the file is locked or removed in between)
ReadRaisesChoices == {{}, {InProj(<<n_build, n_x_txt>>)}}

(***************************************************************************)
(* Display strings.                                                        *)
(***************************************************************************)
S_EXTERNAL == <<"E","X","T","E","R","N","A","L",":">>
S_from == <<" ","(","f","r","o","m"," ">>
S_dots == <<".",".",".",")">>

\* the string display_path_for_header holds
display_str(plat, d) ==
  IF d.kind = "relative" THEN join(plat, d.path)
  ELSE IF d.kind = "EXTERNAL"
  THEN S_EXTERNAL \o d.path[1]
       \o (IF d.from = <<>> THEN <<>> ELSE S_from \o d.from[1] \o <<sep(plat)>> \o S_dots)
  ELSE path_str(plat, d.path)

(***************************************************************************)
(* The content aggregator: generate_context_file_data, lines 298-327.      *)
(***************************************************************************)
BINARY_EXTENSIONS ==
  { <<".","e","x","e">>, <<".","d","l","l">>, <<".","s","o">>,
    <<".","d","y","l","i","b">>, <<".","j","a","r">>,
    <<".","c","l","a","s","s">>, <<".","p","y","c">>, <<".","o">>,
    <<".","a">>, <<".","l","i","b">>, <<".","z","i","p">>, <<".","g","z">>,
    <<".","t","a","r">>, <<".","r","a","r">>, <<".","7","z">>,
    <<".","p","k","g">>, <<".","d","m","g">>, <<".","p","d","f">>,
    <<".","d","o","c">>, <<".","d","o","c","x">>, <<".","x","l","s">>,
    <<".","x","l","s","x">>, <<".","p","p","t">>, <<".","p","p","t","x">>,
    <<".","o","d","t">>, <<".","o","d","s">>, <<".","o","d","p">>,
    <<".","m","p","3">>, <<".","w","a","v">>, <<".","o","g","g">>,
    <<".","m","p","4">>, <<".","a","v","i">>, <<".","m","k","v">>,
    <<".","m","o","v">>, <<".","w","e","b","m">>, <<".","d","b">>,
    <<".","s","q","l","i","t","e">>, <<".","s","q","l","i","t","e","3">>,
    <<".","m","d","b">>, <<".","a","c","c","d","b">>,
    <<".","w","a","s","m">>, <<".","w","o","f","f">>,
    <<".","w","o","f","f","2">>, <<".","t","t","f">>, <<".","o","t","f">>,
    <<".","e","o","t">>, <<".","D","S","_","S","t","o","r","e">> }

RASTER_IMAGE_EXTENSIONS ==
  { <<".","p","n","g">>, <<".","j","p","g">>, <<".","j","p","e","g">>,
    <<".","g","i","f">>, <<".","b","m","p">>, <<".","t","i","f","f">>,
    <<".","i","c","o">> }

SVG_IMAGE_EXTENSIONS ==
  { <<".","s","v","g">> }

\* binary_like_extensions of drop_context
binary_like_extensions == BINARY_EXTENSIONS \cup RASTER_IMAGE_EXTENSIONS \cup SVG_IMAGE_EXTENSIONS

\* the orders in which a directory listing can come back from the filesystem
Enumerations == {"asc", "desc"}

\* name a is listed before name b
enum_before(enum, a, b) == IF enum = "asc" THEN str_lt(a, b) ELSE str_lt(b, a)

\* os.walk, top down: file r1 is yielded before file r2 (paths relative to the
\* walked directory): the files of a directory come before the files of its
\* subdirectories, names at one level in listing order
RECURSIVE walk_before(_, _, _)
walk_before(enum, r1, r2) ==
  IF r1[1] = r2[1] THEN walk_before(enum, Tail(r1), Tail(r2))
  ELSE IF Len(r1) = 1 /\ Len(r2) > 1 THEN TRUE
  ELSE IF Len(r1) > 1 /\ Len(r2) = 1 THEN FALSE
  ELSE enum_before(enum, r1[1], r2[1])

\* for every key, the selection whose iteration inserts it into
\* files_to_include: the first one that includes it
first_insertion(plat, fsnow, sels, keys) ==
  LET single == [i \in 1..Len(sels) |-> DOMAIN files_to_include(plat, fsnow, <<sels[i]>>)] @@ <<>>
  IN [k \in keys |-> CHOOSE i \in 1..Len(sels) :
                       k \in single[i] /\ \A j \in 1..(i - 1) : k \notin single[j]] @@ EmptyMap

\* dict order: key k1 was inserted into files_to_include before key k2
inserted_before(enum, sels, first, k1, k2) ==
  \/ first[k1] < first[k2]
  \/ /\ first[k1] = first[k2]
     /\ k1 # k2
     /\ walk_before(enum, relpath(k1, sels[first[k1]].path), relpath(k2, sels[first[k1]].path))

\* the keys in the order given by their rank (the number of keys before each)
in_rank_order(rank) == [i \in 1..Cardinality(DOMAIN rank) |-> CHOOSE k \in DOMAIN rank : rank[k] = i - 1]

\* the keys sorted by key_str, equal strings in dict order
sorted_by(enum, sels, first, key_str) ==
  in_rank_order([k \in DOMAIN key_str |->
                   Cardinality({y \in DOMAIN key_str :
                                  \/ str_lt(key_str[y], key_str[k])
                                  \/ /\ key_str[y] = key_str[k]
                                     /\ inserted_before(enum, sels, first, y, k)})]
                @@ EmptyMap)

\* sorted(files_to_include.keys(), key=lambda p: files_to_include[p]): by
\* display string in code-point order, equal strings in dict order
sorted_file_paths_abs_normcased(plat, fsnow, sels, enum, files) ==
  sorted_by(enum, sels, first_insertion(plat, fsnow, sels, DOMAIN files),
            [k \in DOMAIN files |-> display_str(plat, files[k])] @@ EmptyMap)

\* the same for every listing order, the dict order and the sort keys worked
\* out once
sorted_for_each_enumeration(plat, fsnow, sels, files) ==
  LET first == first_insertion(plat, fsnow, sels, DOMAIN files)
      key_str == [k \in DOMAIN files |-> display_str(plat, files[k])] @@ EmptyMap
  IN [enum \in Enumerations |-> sorted_by(enum, sels, first, key_str)] @@ EmptyMap

\* ext.lower() for ext in binary_extensions
binary_extensions_lowered == {lower(ext) : ext \in binary_like_extensions}

\* any(file_path_abs_normcased.endswith(ext.lower()) for ext in binary_extensions)
has_binary_extension(plat, key) ==
  LET file_path_abs_normcased == path_str(plat, key)
  IN \E ext \in binary_extensions_lowered : endswith(file_path_abs_normcased, ext)

\* open(file_path_abs_normcased, ...) raises; found holds the node the path names
open_fails(found) == found = {} \/ \E n \in found : n.is_dir \/ n.path \in Unreadable

\* lines 302-307
is_binary(plat, key, found) ==
  \/ has_binary_extension(plat, key)
  \/ open_fails(found)
  \/ \E n \in found : has_nul(read(content_of(n.path), SniffBytes))

NoDisplay == [kind |-> "none", path |-> <<>>, from |-> <<>>]

\* one line of the output: its kind, the display path it names, its payload
OutLine(kind, display, text) == [kind |-> kind, display |-> display, text |-> text]

\* one iteration of "for file_path_abs_normcased in sorted_file_paths_abs_normcased"
content_block(plat, fsnow, read_raises, key, display) ==
  LET found == lookup(plat, fsnow, key)
  IN IF is_binary(plat, key, found)
     THEN << OutLine("binary_header", display, <<>>), OutLine("file_footer", display, <<>>) >>
     ELSE IF \E n \in found : n.path \in read_raises
     THEN << OutLine("error_header", display, <<>>), OutLine("error_text", display, <<>>),
             OutLine("error_footer", display, <<>>) >>
     ELSE << OutLine("file_header", display, <<>>),
             OutLine("content", display,
                     strip_content(content_of((CHOOSE n \in found : TRUE).path))),
             OutLine("file_footer", display, <<>>) >>

\* the blocks of the keys in the given order, one after the other
RECURSIVE content_blocks(_, _, _)
content_blocks(blocks, order, i) ==
  IF i > Len(order) THEN <<>>
  ELSE blocks[order[i]] \o content_blocks(blocks, order, i + 1)

\* context_content_lines with the warnings appended after the blocks
context_content_lines_warnings_last(summary_tree_str, warnings, blocks, order) ==
  << OutLine("structure_header", NoDisplay, <<>>),
     OutLine("structure", NoDisplay, summary_tree_str),
     OutLine("structure_end", NoDisplay, <<>>) >>
  \o content_blocks(blocks, order, 1)
  \o [w \in 1..Len(warnings) |-> OutLine("warning", NoDisplay, <<warnings[w]>>)]

\* context_content_lines as returned: the structure section, the warnings
\* appended by the loop over the selections, the blocks appended by the loop
\* over the sorted keys
context_content_lines(summary_tree_str, warnings, blocks, order) ==
  << OutLine("structure_header", NoDisplay, <<>>),
     OutLine("structure", NoDisplay, summary_tree_str),
     OutLine("structure_end", NoDisplay, <<>>) >>
  \o [w \in 1..Len(warnings) |-> OutLine("warning", NoDisplay, <<warnings[w]>>)]
  \o content_blocks(blocks, order, 1)

\* the block of every key of files_to_include
blocks_of(plat, fsnow, read_raises, files) ==
  [k \in DOMAIN files |-> content_block(plat, fsnow, read_raises, k, files[k])] @@ EmptyMap

generate_context_file_data(plat, fsnow, sels, enum, read_raises) ==
  LET r == resolve(plat, fsnow, sels)
  IN context_content_lines(generate_project_tree_summary(plat, fsnow, sels), r.warnings,
                           blocks_of(plat, fsnow, read_raises, r.files),
                           sorted_file_paths_abs_normcased(plat, fsnow, sels, enum, r.files))

(***************************************************************************)
(* The selection store (db_manager.py).  selections is the table in rowid  *)
(* order; the path column is COLLATE NOCASE and unique.                    *)
(***************************************************************************)
nocase_eq(p, q) ==
  /\ Len(p) = Len(q)
  /\ \A i \in 1..Len(p) :
       \/ p[i] = q[i]
       \/ /\ Len(p[i]) = Len(q[i])
          /\ \A j \in 1..Len(p[i]) : p[i][j] = q[i][j] \/ LowerChar[p[i][j]] = LowerChar[q[i][j]]

\* category_id NULL
NoCategory == 0

\* SELECT ... WHERE s.project_id = ?, in rowid order
get_selections(sels, project_id) == SelectSeq(sels, LAMBDA s : s.project_id = project_id)

\* the rows WHERE project_id = ? AND path = ?
get_selection_by_path(sels, project_id, path) ==
  {i \in 1..Len(sels) : sels[i].project_id = project_id /\ nocase_eq(sels[i].path, path)}

\* add_selection that always inserts
add_selection_appending(sels, project_id, path, is_directory, category_id, file_types) ==
  Append(sels, [project_id |-> project_id, path |-> path, is_directory |-> is_directory,
                category_id |-> category_id, file_types |-> file_types])

\* INSERT, and on the IntegrityError of the unique index the UPDATE of the
\* row with that project and path
add_selection(sels, project_id, path, is_directory, category_id, file_types) ==
  IF get_selection_by_path(sels, project_id, path) = {}
  THEN Append(sels, [project_id |-> project_id, path |-> path, is_directory |-> is_directory,
                     category_id |-> category_id, file_types |-> file_types])
  ELSE [i \in 1..Len(sels) |->
          IF sels[i].project_id = project_id /\ nocase_eq(sels[i].path, path)
          THEN [sels[i] EXCEPT !.category_id = category_id, !.file_types = file_types,
                               !.is_directory = is_directory]
          ELSE sels[i]]

remove_selection(sels, project_id, path) ==
  SelectSeq(sels, LAMBDA s : ~(s.project_id = project_id /\ nocase_eq(s.path, path)))

update_selection_category(sels, project_id, path, category_id) ==
  [i \in 1..Len(sels) |->
     IF sels[i].project_id = project_id /\ nocase_eq(sels[i].path, path)
     THEN [sels[i] EXCEPT !.category_id = category_id]
     ELSE sels[i]]

\* The categories table: its rows and the AUTOINCREMENT sequence.  INSERT,
\* and nothing on the IntegrityError of UNIQUE (project_id, name).
add_category(cats, project_id, name) ==
  IF \E c \in cats.rows : c.project_id = project_id /\ c.name = name
  THEN cats
  ELSE [rows |-> cats.rows \cup {[id |-> cats.seq + 1, project_id |-> project_id, name |-> name]},
        seq |-> cats.seq + 1]

\* the UPDATE written as a DELETE of the selections of the category
uncategorize_items_deleting(sels, category_id) ==
  SelectSeq(sels, LAMBDA s : s.category_id # category_id)

\* remove_category_and_uncategorize_items: the UPDATE of the selections ...
uncategorize_items(sels, category_id) ==
  [i \in 1..Len(sels) |->
     IF sels[i].category_id = category_id THEN [sels[i] EXCEPT !.category_id = NoCategory]
     ELSE sels[i]]

\* ... and the DELETE of the category
delete_category(cats, category_id) ==
  [cats EXCEPT !.rows = {c \in cats.rows : c.id # category_id}]

\* the statement of remove_category_and_uncategorize_items at which
\* sqlite3.Error is raised, or none
DbErrors == {"none", "update", "delete", "commit"}

\* remove_category_and_uncategorize_items: both statements in one
\* transaction, committed, or rolled back by the except clause
remove_category_and_uncategorize_items(sels, cats, category_id, db_error) ==
  LET updated == IF db_error = "update" THEN sels ELSE uncategorize_items(sels, category_id)
      deleted == IF db_error \in {"update", "delete"} THEN cats ELSE delete_category(cats, category_id)
  IN IF db_error = "none"
     THEN [returned |-> TRUE, selections |-> updated, categories |-> deleted]
     ELSE [returned |-> FALSE, selections |-> sels, categories |-> cats]

(***************************************************************************)
(* The projects table (db_manager.py): its rows and the AUTOINCREMENT      *)
(* sequence.  A project name is a sequence of characters, a prompt guide   *)
(* is one of a few texts.                                                  *)
(***************************************************************************)
\* project_id None
NoProject == 0

DEFAULT_NEW_PROJECT_PROMPT == "default"

NoProjects == [rows |-> {}, seq |-> 0]

\* INSERT INTO projects (name, path, prompt_guide); nothing on the
\* IntegrityError of UNIQUE name
add_project(projs, name) ==
  IF \E r \in projs.rows : r.name = name
  THEN projs
  ELSE [rows |-> projs.rows \cup {[id |-> projs.seq + 1, name |-> name,
                                    prompt_guide |-> DEFAULT_NEW_PROJECT_PROMPT, is_active |-> FALSE]},
        seq |-> projs.seq + 1]

\* SELECT * FROM projects WHERE id = ?
get_project_by_id(projs, project_id) == {r \in projs.rows : r.id = project_id}

\* SELECT * FROM projects WHERE is_active = 1
get_active_project(projs) == {r \in projs.rows : r.is_active}

\* set_active_project with the first UPDATE left out
set_active_project_keeping(projs, project_id) ==
  [projs EXCEPT !.rows = {[r EXCEPT !.is_active = @ \/ r.id = project_id] : r \in projs.rows}]

\* UPDATE projects SET is_active = 0; if project_id: UPDATE ... SET is_active = 1 WHERE id = ?
set_active_project(projs, project_id) ==
  [projs EXCEPT !.rows = {[r EXCEPT !.is_active = (project_id # NoProject /\ r.id = project_id)] :
                            r \in projs.rows}]

\* UPDATE projects SET prompt_guide = ? WHERE id = ?
update_project_prompt(projs, project_id, prompt_guide) ==
  [projs EXCEPT !.rows = {IF r.id = project_id THEN [r EXCEPT !.prompt_guide = prompt_guide] ELSE r :
                            r \in projs.rows}]

\* DELETE FROM projects WHERE id = ?
delete_project(projs, project_id) ==
  [projs EXCEPT !.rows = {r \in projs.rows : r.id # project_id}]

(***************************************************************************)
(* The inputs of the model: the directory filters a user types and the     *)
(* nodes a user selects.                                                   *)
(***************************************************************************)
\* ".py,.md"
FT_py_md == << <<".","p","y">>, <<".","m","d">> >>
\* "md , x.txt"
FT_md == << <<"m","d"," ">>, <<" ","x",".","t","x","t">> >>
\* ".MD"
FT_MD == << <<".","M","D">> >>

DirectoryInputs ==
  ({project_path} \X {NoneTypes, FT_py_md, FT_md, FT_MD})
  \cup ({InProj(<<n_sub>>)} \X {FT_py_md})
  \cup ({InProj(<<n_build>>)} \X {FT_py_md})
  \cup ({<<n_ext>>} \X {NoneTypes})

FileInputs ==
  { InProj(<<n_context_txt>>), InProj(<<n_old_py>>), <<n_ext, n_old_py>>,
    InProj(<<n_build, n_x_txt>>), InProj(<<n_d1, n_d2, n_d3, n_d4, n_deep_py>>) }

(***************************************************************************)
(* State.  result is what the last drop_context produced; any later        *)
(* operation discards it.                                                  *)
(***************************************************************************)
NoResult ==
  [status |-> "none", selections |-> <<>>, fs |-> {}, files_to_include |-> EmptyMap,
   warnings |-> <<>>, summary_lines |-> <<>>, read_raises |-> {}, context_content_lines |-> <<>>]

\* self.current_project_id of the one project the window has open
current_project_id == 1

NoCategories == [rows |-> {}, seq |-> 0]

n_alpha == <<"a","l","p","h","a">>
n_beta == <<"b","e","t","a">>

\* the projects table with one project, open in the window, and with two
OneProject ==
  [rows |-> {[id |-> current_project_id, name |-> n_alpha,
              prompt_guide |-> DEFAULT_NEW_PROJECT_PROMPT, is_active |-> TRUE]},
   seq |-> current_project_id]

TwoProjects ==
  [rows |-> OneProject.rows \cup {[id |-> current_project_id + 1, name |-> n_beta,
                                   prompt_guide |-> DEFAULT_NEW_PROJECT_PROMPT, is_active |-> FALSE]},
   seq |-> current_project_id + 1]

\* no edit of the prompt guide is waiting to be saved
NoEdit == [project_id |-> NoProject, text |-> ""]

\* the main window showing a project: the project combo, the prompt editor,
\* the debounce timer; unsaved is the last edit not yet written to the table
WindowOn(project_id, prompt_guide) ==
  [open |-> TRUE, current_project_id |-> project_id, project_combo |-> project_id,
   prompt_edit |-> prompt_guide, prompt_save_timer |-> FALSE, unsaved |-> NoEdit]

\* the hover icon at rest
\* a press-release sequence of the left button that began on the icon, with what
\* happened to it so far, and the end of the last one
NoGesture == [active |-> FALSE, moved_beyond |-> FALSE, timer_fired |-> FALSE]

NoOutcome ==
  [ended |-> FALSE, became_drag |-> FALSE, saved |-> FALSE, emitted |-> 0,
   moved_beyond |-> FALSE, timer_fired |-> FALSE, release_on_icon |-> FALSE]

IconAtRest ==
  [is_dragging |-> FALSE, is_potential_click |-> FALSE, long_press_timer |-> FALSE,
   mouse_press_pos_local |-> 0, buttons |-> {}, pointer |-> 0,
   gesture |-> NoGesture, outcome |-> NoOutcome]

Init ==
  /\ os_name \in {"posix", "nt"}
  /\ fs = FixedNodes \cup {old_py_node, old_ext_node}
  /\ selections = <<>>
  /\ categories = NoCategories
  /\ result = NoResult
  /\ projects = OneProject
  /\ foreign_keys = FALSE
  /\ window = WindowOn(current_project_id, DEFAULT_NEW_PROJECT_PROMPT)
  /\ icon = IconAtRest

\* category_id = existing_selection['category_id'] if existing_selection else None
kept_category_id(sels, project_id, path) ==
  IF get_selection_by_path(sels, project_id, path) = {} THEN NoCategory
  ELSE sels[CHOOSE i \in get_selection_by_path(sels, project_id, path) : TRUE].category_id

\* tree_context_menu / handle_dropped_item_signal -> add_or_update_selection
\* on a directory: the dialog's text, stripped, or None when it is empty
AddDirectorySelection ==
  \E inp \in DirectoryInputs :
    /\ Dir(inp[1]) \in fs
    /\ \/ get_selection_by_path(selections, current_project_id, normcase_path(os_name, inp[1])) # {}
       \/ Len(selections) < MaxSelections
    /\ selections' = add_selection(selections, current_project_id, normcase_path(os_name, inp[1]), TRUE,
                                   kept_category_id(selections, current_project_id,
                                                    normcase_path(os_name, inp[1])),
                                   inp[2])
    /\ result' = NoResult
    /\ UNCHANGED <<os_name, fs, categories, application>>

\* the same on a file: file_types stays None
AddFileSelection ==
  \E p \in FileInputs :
    /\ File(p) \in fs
    /\ \/ get_selection_by_path(selections, current_project_id, normcase_path(os_name, p)) # {}
       \/ Len(selections) < MaxSelections
    /\ selections' = add_selection(selections, current_project_id, normcase_path(os_name, p), FALSE,
                                   kept_category_id(selections, current_project_id,
                                                    normcase_path(os_name, p)),
                                   NoneTypes)
    /\ result' = NoResult
    /\ UNCHANGED <<os_name, fs, categories, application>>

\* remove_selected_path
RemoveSelection ==
  \E i \in 1..Len(selections) :
    /\ selections' = remove_selection(selections, current_project_id, selections[i].path)
    /\ result' = NoResult
    /\ UNCHANGED <<os_name, fs, categories, application>>

\* the user deletes the old.py files outside the program
DeleteOldFile ==
  /\ old_py_node \in fs
  /\ fs' = fs \ {old_py_node, old_ext_node}
  /\ result' = NoResult
  /\ UNCHANGED <<os_name, selections, categories, application>>

\* drop_context with no selection under the filter: nothing is generated
DropContextNoSelections ==
  /\ isdir(os_name, fs, project_path)
  /\ get_selections(selections, current_project_id) = <<>>
  /\ result' = [NoResult EXCEPT !.status = "no_selections"]
  /\ UNCHANGED <<os_name, fs, selections, categories, application>>

\* drop_context: generate_context_file_data, then context.txt is written.
\* The filesystem lists directories in one of its orders and lets the text
\* read of some files fail; result keeps the parts of the computation next to
\* the lines returned.
DropContext ==
  /\ isdir(os_name, fs, project_path)
  /\ get_selections(selections, current_project_id) # <<>>
  /\ \E selections_for_context \in {get_selections(selections, current_project_id)} :
     \E r \in {resolve(os_name, fs, selections_for_context)},
        summary_tree_str \in {generate_project_tree_summary(os_name, fs, selections_for_context)} :
      \E orders \in {sorted_for_each_enumeration(os_name, fs, selections_for_context, r.files)},
         read_raises \in ReadRaisesChoices :
       \E blocks \in {blocks_of(os_name, fs, read_raises, r.files)} :
         \E enum \in Enumerations :
          \E order \in {orders[enum]} :
           result' = [status |-> "generated",
                      selections |-> selections_for_context,
                      fs |-> fs,
                      files_to_include |-> r.files,
                      warnings |-> r.warnings,
                      summary_lines |-> summary_tree_str,
                      read_raises |-> {p \in read_raises :
                                         \E k \in DOMAIN blocks : blocks[k][1].kind = "error_header"},
                      context_content_lines |->
                        context_content_lines(summary_tree_str, r.warnings, blocks, order)]
  /\ fs' = fs \cup {context_txt_node}
  /\ UNCHANGED <<os_name, selections, categories, application>>

\* drop_context on a project whose path is not a directory, lines 1033-1036:
\* a warning box, and the handler returns
DropContextInvalidPath ==
  /\ ~isdir(os_name, fs, project_path)
  /\ result' = [NoResult EXCEPT !.status = "invalid_project_path"]
  /\ UNCHANGED <<os_name, fs, selections, categories, application>>

Next ==
  \/ AddDirectorySelection
  \/ AddFileSelection
  \/ RemoveSelection
  \/ DeleteOldFile
  \/ DropContextNoSelections
  \/ DropContext

Spec == Init /\ [][Next]_vars

(***************************************************************************)
(* The store on its own: the calls the window and the category dialog make *)
(* on db_manager, for two projects, with the paths normcased by the        *)
(* caller.  On POSIX a directory can hold a.py and A.PY side by side.      *)
(***************************************************************************)
n_A_PY == <<"A",".","P","Y">>

ProjectIds == {current_project_id, current_project_id + 1}

\* the spellings under which callers name a path
StoreSpellings == {InProj(<<n_a_py>>), InProj(<<n_A_PY>>), InProj(<<n_sub>>)}

\* the paths each project's window is used on: both projects have /Proj/a.py
\* in two spellings, the first also /Proj/sub
StoreInputs ==
  {inp \in ProjectIds \X StoreSpellings :
     inp[1] = current_project_id \/ lower_path(inp[2]) = lower_path(InProj(<<n_a_py>>))}

CategoryNames == {"docs"}

\* what is on disk while the store is exercised
StoreNodes ==
  { Dir(project_path), File(InProj(<<n_a_py>>)),
    Dir(InProj(<<n_sub>>)), File(InProj(<<n_sub, n_c_py>>)) }

CategoryIds == {c.id : c \in categories.rows}

\* the categories a project's dialogs offer, and no category
CategoryChoices(project_id) ==
  {NoCategory} \cup {c.id : c \in {r \in categories.rows : r.project_id = project_id}}

StoreInit ==
  /\ os_name \in {"posix", "nt"}
  /\ fs = StoreNodes \cup (IF os_name = "posix" THEN {File(InProj(<<n_A_PY>>))} ELSE {})
  /\ selections = <<>>
  /\ categories = NoCategories
  /\ result = NoResult
  /\ projects = TwoProjects
  /\ foreign_keys = FALSE
  /\ window = WindowOn(current_project_id, DEFAULT_NEW_PROJECT_PROMPT)
  /\ icon = IconAtRest

\* db_manager.add_selection(project_id, path, is_directory, category_id, file_types);
\* result keeps that the UPDATE took effect
AddSelectionCall(project_id, path, is_directory, category_id, file_types) ==
  /\ selections' = add_selection(selections, project_id, path, is_directory, category_id, file_types)
  /\ result' = [NoResult EXCEPT !.status =
                  IF get_selection_by_path(selections, project_id, path) # {}
                  THEN "selection_updated" ELSE "none"]
  /\ UNCHANGED <<os_name, fs, categories, application>>

StoreAddSelection ==
  \E inp \in StoreInputs, is_directory \in BOOLEAN :
   \E project_id \in {inp[1]}, p \in {inp[2]} :
    \E category_id \in CategoryChoices(project_id),
       file_types \in (IF is_directory THEN {NoneTypes, FT_py_md} ELSE {NoneTypes}),
       normcased_path \in {normcase_path(os_name, p)} :
      AddSelectionCall(project_id, normcased_path, is_directory, category_id, file_types)

\* db_manager.remove_selection(project_id, path)
StoreRemoveSelection ==
  \E inp \in StoreInputs :
   \E project_id \in {inp[1]}, p \in {inp[2]} :
   \E normcased_path \in {normcase_path(os_name, p)} :
    /\ get_selection_by_path(selections, project_id, normcased_path) # {}
    /\ selections' = remove_selection(selections, project_id, normcased_path)
    /\ result' = NoResult
    /\ UNCHANGED <<os_name, fs, categories, application>>

\* db_manager.update_selection_category(project_id, path, category_id)
StoreUpdateSelectionCategory ==
  \E inp \in StoreInputs :
   \E project_id \in {inp[1]}, p \in {inp[2]} :
   \E category_id \in CategoryChoices(project_id), normcased_path \in {normcase_path(os_name, p)} :
    /\ get_selection_by_path(selections, project_id, normcased_path) # {}
    /\ selections' = update_selection_category(selections, project_id, normcased_path, category_id)
    /\ result' = NoResult
    /\ UNCHANGED <<os_name, fs, categories, application>>

\* db_manager.add_category(project_id, name), from the category dialog of
\* the open project
StoreAddCategory ==
  \E project_id \in {current_project_id}, name \in CategoryNames :
    /\ categories.seq < MaxCategories
    /\ categories' = add_category(categories, project_id, name)
    /\ result' = NoResult
    /\ UNCHANGED <<os_name, fs, selections, application>>

\* db_manager.remove_category_and_uncategorize_items(category_id)
StoreRemoveCategory ==
  \E category_id \in CategoryIds, db_error \in DbErrors :
   \E r \in {remove_category_and_uncategorize_items(selections, categories, category_id, db_error)} :
    /\ selections' = r.selections
    /\ categories' = r.categories
    /\ result' = NoResult
    /\ UNCHANGED <<os_name, fs, application>>

StoreNext ==
  \/ StoreAddSelection
  \/ StoreRemoveSelection
  \/ StoreUpdateSelectionCategory
  \/ StoreAddCategory
  \/ StoreRemoveCategory

StoreSpec == StoreInit /\ [][StoreNext]_vars

(***************************************************************************)
(* The disk changes under the program: the project directory is moved away *)
(* and back, a directory loses and regains the permission to be listed,    *)
(* and the selections include the filesystem root, an ancestor of the      *)
(* project.                                                                *)
(***************************************************************************)
DiskProjectNodes ==
  { Dir(project_path), File(InProj(<<n_a_py>>)),
    Dir(InProj(<<n_sub>>)), File(InProj(<<n_sub, n_c_py>>)),
    Dir(InProj(<<n_up>>)), File(InProj(<<n_up, n_e_py>>)) }

DiskNodes == DiskProjectNodes \cup {Dir(<<>>), Dir(<<n_ext>>), File(<<n_ext, n_e_py>>)}

DiskDirectoryInputs ==
  { <<<<>>, NoneTypes>>, <<project_path, NoneTypes>>, <<InProj(<<n_sub>>), FT_py_md>>,
    <<<<n_ext>>, NoneTypes>> }

DiskFileInputs == {InProj(<<n_sub, n_c_py>>), <<n_ext, n_e_py>>}

\* the directory whose permissions change
chmod_dir == InProj(<<n_sub>>)

DiskInit ==
  /\ os_name \in {"posix", "nt"}
  /\ fs = DiskNodes
  /\ selections = <<>>
  /\ categories = NoCategories
  /\ result = NoResult
  /\ projects = OneProject
  /\ foreign_keys = FALSE
  /\ window = WindowOn(current_project_id, DEFAULT_NEW_PROJECT_PROMPT)
  /\ icon = IconAtRest

\* handle_dropped_item_signal -> add_or_update_selection on a directory
DiskAddDirectorySelection ==
  \E inp \in DiskDirectoryInputs :
    /\ isdir(os_name, fs, inp[1])
    /\ \/ get_selection_by_path(selections, current_project_id, normcase_path(os_name, inp[1])) # {}
       \/ Len(selections) < MaxDiskSelections
    /\ selections' = add_selection(selections, current_project_id, normcase_path(os_name, inp[1]), TRUE,
                                   kept_category_id(selections, current_project_id,
                                                    normcase_path(os_name, inp[1])),
                                   inp[2])
    /\ result' = NoResult
    /\ UNCHANGED <<os_name, fs, categories, application>>

\* the same on a file
DiskAddFileSelection ==
  \E p \in DiskFileInputs :
    /\ exists(os_name, fs, p)
    /\ \/ get_selection_by_path(selections, current_project_id, normcase_path(os_name, p)) # {}
       \/ Len(selections) < MaxDiskSelections
    /\ selections' = add_selection(selections, current_project_id, normcase_path(os_name, p), FALSE,
                                   kept_category_id(selections, current_project_id,
                                                    normcase_path(os_name, p)),
                                   NoneTypes)
    /\ result' = NoResult
    /\ UNCHANGED <<os_name, fs, categories, application>>

\* chmod a-r and chmod a+r on the directory, outside the program
ChmodDirectory ==
  /\ \/ Dir(chmod_dir) \in fs /\ fs' = (fs \ {Dir(chmod_dir)}) \cup {Unlistable(chmod_dir)}
     \/ Unlistable(chmod_dir) \in fs /\ fs' = (fs \ {Unlistable(chmod_dir)}) \cup {Dir(chmod_dir)}
  /\ result' = NoResult
  /\ UNCHANGED <<os_name, selections, categories, application>>

\* the project directory is moved away, outside the program
MoveProjectAway ==
  /\ isdir(os_name, fs, project_path)
  /\ fs' = {n \in fs : ~(n.path = project_path \/ under(n.path, project_path))}
  /\ result' = NoResult
  /\ UNCHANGED <<os_name, selections, categories, application>>

\* and moved back
MoveProjectBack ==
  /\ ~isdir(os_name, fs, project_path)
  /\ fs' = fs \cup DiskProjectNodes
  /\ result' = NoResult
  /\ UNCHANGED <<os_name, selections, categories, application>>

DiskNext ==
  \/ DiskAddDirectorySelection
  \/ DiskAddFileSelection
  \/ RemoveSelection
  \/ ChmodDirectory
  \/ MoveProjectAway
  \/ MoveProjectBack
  \/ DropContextNoSelections
  \/ DropContext
  \/ DropContextInvalidPath

DiskSpec == DiskInit /\ [][DiskNext]_vars

(***************************************************************************)
(* The project handlers of the main window (context_dropper.py), as        *)
(* functions of st = [projects, window].                                   *)
(***************************************************************************)
\* get_projects ORDER BY name: the item data of index 0 of the project combo
first_project(projs) ==
  IF projs.rows = {} THEN NoProject
  ELSE (CHOOSE r \in projs.rows : \A o \in projs.rows : o = r \/ str_lt(r.name, o.name)).id

\* clear_project_context
clear_project_context(st) ==
  [projects |-> set_active_project(st.projects, NoProject),
   window |-> [st.window EXCEPT !.current_project_id = NoProject, !.prompt_edit = ""]]

\* update_project_details: the prompt editor is set with its signals blocked
update_project_details(st, project_id) ==
  IF project_id = NoProject \/ get_project_by_id(st.projects, project_id) = {}
  THEN clear_project_context(st)
  ELSE LET project == CHOOSE r \in get_project_by_id(st.projects, project_id) : TRUE
       IN [projects |-> set_active_project(st.projects, project.id),
           window |-> [st.window EXCEPT !.current_project_id = project.id,
                                        !.prompt_edit = project.prompt_guide]]

\* load_projects: the combo is cleared and refilled with its signals
\* blocked, which leaves index 0 current
load_projects(st) == [st EXCEPT !.window.project_combo = first_project(st.projects)]

\* project_combo.setCurrentIndex with signals enabled: currentIndexChanged
\* runs project_selected_by_combo when the index changes
setCurrentIndex(st, project_id) ==
  IF st.window.project_combo = project_id THEN st
  ELSE update_project_details([st EXCEPT !.window.project_combo = project_id], project_id)

\* load_active_project, called after load_projects.  With no active project
\* it calls setCurrentIndex(0) on a combo whose index 0 is current already:
\* index_changed says whether the toolkit reports a change all the same.
load_active_project(st, index_changed) ==
  IF get_active_project(st.projects) # {}
  THEN LET project_id_to_activate == (CHOOSE r \in get_active_project(st.projects) : TRUE).id
           shown == setCurrentIndex(st, project_id_to_activate)
       IN IF shown.window.current_project_id # project_id_to_activate
          THEN update_project_details(shown, project_id_to_activate)
          ELSE shown
  ELSE IF st.projects.rows # {}
  THEN IF index_changed THEN update_project_details(st, first_project(st.projects)) ELSE st
  ELSE clear_project_context(st)

\* save_prompt_guide_to_db; the edit waiting in unsaved is saved when it is
\* the text written and the project written to
save_prompt_guide_to_db(st) ==
  IF st.window.current_project_id = NoProject THEN st
  ELSE [projects |-> update_project_prompt(st.projects, st.window.current_project_id,
                                           st.window.prompt_edit),
        window |-> [st.window EXCEPT !.unsaved =
                      IF /\ @.project_id = st.window.current_project_id
                         /\ @.text = st.window.prompt_edit
                         /\ get_project_by_id(st.projects, @.project_id) # {}
                      THEN NoEdit ELSE @]]

\* closeEvent, lines 1170-1173
closeEvent(st) ==
  LET saved == IF st.window.prompt_save_timer
               THEN save_prompt_guide_to_db([st EXCEPT !.window.prompt_save_timer = FALSE])
               ELSE st
  IN [saved EXCEPT !.window.open = FALSE]

\* MainWindow.__init__, lines 105-125: load_projects, load_active_project
construct(st, index_changed) ==
  load_active_project(
    load_projects([st EXCEPT !.window =
                     [WindowOn(NoProject, "") EXCEPT !.unsaved = st.window.unsaved]]),
    index_changed)

\* ON DELETE CASCADE of categories.project_id and selections.project_id,
\* when the connection enforces foreign keys
cascade_categories(cats, project_id) ==
  [cats EXCEPT !.rows = {c \in cats.rows : c.project_id # project_id}]

cascade_selections(sels, project_id) == SelectSeq(sels, LAMBDA s : s.project_id # project_id)

(***************************************************************************)
(* The projects of the window: projects are created, switched to and       *)
(* deleted, the window is closed and started again, and the open project   *)
(* gets categories and a selection.  The database is built with or without *)
(* enforced foreign keys; no connection sets the pragma.                   *)
(***************************************************************************)
ProjectNames == {n_alpha, n_beta}

NoWindow == [WindowOn(NoProject, "") EXCEPT !.open = FALSE]

ProjectsInit ==
  /\ os_name \in {"posix", "nt"}
  /\ fs = StoreNodes
  /\ selections = <<>>
  /\ categories = NoCategories
  /\ result = NoResult
  /\ projects = NoProjects
  /\ foreign_keys \in BOOLEAN
  /\ window = NoWindow
  /\ icon = IconAtRest

\* the application is started
StartWindow ==
  /\ ~window.open
  /\ \E index_changed \in BOOLEAN :
      \E st \in {construct([projects |-> projects, window |-> window], index_changed)} :
        projects' = st.projects /\ window' = st.window
  /\ result' = NoResult
  /\ UNCHANGED <<os_name, fs, selections, categories, foreign_keys, icon>>

\* the window is closed
CloseWindow ==
  /\ window.open
  /\ \E st \in {closeEvent([projects |-> projects, window |-> window])} :
        projects' = st.projects /\ window' = st.window
  /\ result' = NoResult
  /\ UNCHANGED <<os_name, fs, selections, categories, foreign_keys, icon>>

\* new_project_dialog with a name that is free
NewProject ==
  /\ window.open
  /\ projects.seq < MaxProjects
  /\ \E name \in ProjectNames :
      /\ \A r \in projects.rows : r.name # name
      /\ \E added \in {add_project(projects, name)} :
         \E listed \in {load_projects([projects |-> added, window |-> window])} :
         \E st \in {update_project_details([listed EXCEPT !.window.project_combo = added.seq],
                                            added.seq)} :
           projects' = st.projects /\ window' = st.window
  /\ result' = NoResult
  /\ UNCHANGED <<os_name, fs, selections, categories, foreign_keys, icon>>

\* the user picks another project in the combo: project_selected_by_combo
SelectProject ==
  /\ window.open
  /\ \E r \in projects.rows :
      /\ r.id # window.project_combo
      /\ \E st \in {setCurrentIndex([projects |-> projects, window |-> window], r.id)} :
           projects' = st.projects /\ window' = st.window
  /\ result' = NoResult
  /\ UNCHANGED <<os_name, fs, selections, categories, foreign_keys, icon>>

\* delete_current_project, confirmed
DeleteCurrentProject ==
  /\ window.open
  /\ window.current_project_id # NoProject
  /\ \E index_changed \in BOOLEAN :
      \E deleted \in {delete_project(projects, window.current_project_id)} :
      \E st \in {load_active_project(load_projects([projects |-> deleted, window |-> window]),
                                      index_changed)} :
        projects' = st.projects /\ window' = st.window
  /\ categories' = IF foreign_keys THEN cascade_categories(categories, window.current_project_id)
                   ELSE categories
  /\ selections' = IF foreign_keys THEN cascade_selections(selections, window.current_project_id)
                   ELSE selections
  /\ result' = NoResult
  /\ UNCHANGED <<os_name, fs, foreign_keys, icon>>

\* an INSERT naming the project fails with IntegrityError when foreign keys
\* are enforced and the project row is gone
insert_allowed(project_id) ==
  ~foreign_keys \/ get_project_by_id(projects, project_id) # {}

\* ManageCategoriesDialog.add_category on the open project
AddCategoryInDialog ==
  /\ window.open
  /\ window.current_project_id # NoProject
  /\ insert_allowed(window.current_project_id)
  /\ categories.seq < MaxProjectCategories
  /\ \E name \in CategoryNames :
      /\ \A c \in categories.rows : ~(c.project_id = window.current_project_id /\ c.name = name)
      /\ categories' = add_category(categories, window.current_project_id, name)
  /\ result' = NoResult
  /\ UNCHANGED <<os_name, fs, selections, application>>

\* ManageCategoriesDialog.remove_category, confirmed; result keeps what the
\* call returned and the selections before it
RemoveCategoryInDialog ==
  /\ window.open
  /\ window.current_project_id # NoProject
  /\ \E c \in {r \in categories.rows : r.project_id = window.current_project_id},
        db_error \in DbErrors :
      \E r \in {remove_category_and_uncategorize_items(selections, categories, c.id, db_error)} :
        /\ selections' = r.selections
        /\ categories' = r.categories
        /\ result' = [NoResult EXCEPT !.status = IF r.returned THEN "category_removed"
                                                 ELSE "category_not_removed",
                                      !.selections = selections]
  /\ UNCHANGED <<os_name, fs, application>>

\* add_or_update_selection of the file a.py in the open project
AddSelectionInProject ==
  /\ window.open
  /\ window.current_project_id # NoProject
  /\ insert_allowed(window.current_project_id)
  /\ \E path \in {normcase_path(os_name, InProj(<<n_a_py>>))} :
      /\ get_selection_by_path(selections, window.current_project_id, path) = {}
      /\ selections' = add_selection(selections, window.current_project_id, path, FALSE,
                                     kept_category_id(selections, window.current_project_id, path),
                                     NoneTypes)
  /\ result' = NoResult
  /\ UNCHANGED <<os_name, fs, categories, application>>

\* assign_category_to_selection_dialog on a selection of the open project
AssignCategory ==
  /\ window.open
  /\ window.current_project_id # NoProject
  /\ \E i \in 1..Len(selections), category_id \in CategoryChoices(window.current_project_id) :
      /\ selections[i].project_id = window.current_project_id
      /\ selections[i].category_id # category_id
      /\ selections' = update_selection_category(selections, window.current_project_id,
                                                 selections[i].path, category_id)
  /\ result' = NoResult
  /\ UNCHANGED <<os_name, fs, categories, application>>

\* remove_selected_path on a selection of the open project
RemoveSelectedPath ==
  /\ window.open
  /\ window.current_project_id # NoProject
  /\ \E i \in 1..Len(selections) :
      /\ selections[i].project_id = window.current_project_id
      /\ selections' = remove_selection(selections, window.current_project_id, selections[i].path)
  /\ result' = NoResult
  /\ UNCHANGED <<os_name, fs, categories, application>>

ProjectsNext ==
  \/ StartWindow
  \/ CloseWindow
  \/ NewProject
  \/ SelectProject
  \/ DeleteCurrentProject
  \/ AddCategoryInDialog
  \/ RemoveCategoryInDialog
  \/ AddSelectionInProject
  \/ AssignCategory
  \/ RemoveSelectedPath

ProjectsSpec == ProjectsInit /\ [][ProjectsNext]_vars

(***************************************************************************)
(* The prompt guide: the user edits the text of the open project, the      *)
(* single-shot timer started by an edit fires a second later, and projects *)
(* are created, switched to and deleted and the window is closed and       *)
(* started in between.                                                     *)
(***************************************************************************)
PromptTexts == {"one", "two"}

PromptInit ==
  /\ os_name \in {"posix", "nt"}
  /\ fs = StoreNodes
  /\ selections = <<>>
  /\ categories = NoCategories
  /\ result = NoResult
  /\ projects = NoProjects
  /\ foreign_keys = FALSE
  /\ window = NoWindow
  /\ icon = IconAtRest

\* the user types in the prompt editor, enabled while a project is open:
\* textChanged -> on_prompt_text_changed starts the timer
EditPrompt ==
  /\ window.open
  /\ window.current_project_id # NoProject
  /\ \E text \in PromptTexts \ {window.prompt_edit} :
        window' = [window EXCEPT !.prompt_edit = text, !.prompt_save_timer = TRUE,
                                 !.unsaved = [project_id |-> window.current_project_id,
                                              text |-> text]]
  /\ result' = NoResult
  /\ UNCHANGED <<os_name, fs, selections, categories, projects, foreign_keys, icon>>

\* prompt_save_timer.timeout -> save_prompt_guide_to_db
PromptSaveTimerFires ==
  /\ window.open
  /\ window.prompt_save_timer
  /\ \E st \in {save_prompt_guide_to_db([projects |-> projects,
                                          window |-> [window EXCEPT !.prompt_save_timer = FALSE]])} :
        projects' = st.projects /\ window' = st.window
  /\ result' = NoResult
  /\ UNCHANGED <<os_name, fs, selections, categories, foreign_keys, icon>>

PromptNext ==
  \/ StartWindow
  \/ CloseWindow
  \/ NewProject
  \/ SelectProject
  \/ DeleteCurrentProject
  \/ EditPrompt
  \/ PromptSaveTimerFires

PromptSpec == PromptInit /\ [][PromptNext]_vars


(***************************************************************************)
(* Vocabulary of the properties, stated on the result of a drop and on the *)
(* filesystem and selection list it was computed from, without the         *)
(* resolver's or the renderer's own operators.                             *)
(***************************************************************************)
Generated == result.status = "generated"

Keys == DOMAIN result.files_to_include

NumSel == Len(result.selections)

ArtifactPath == project_path \o <<context_txt_leaf_name>>

\* the key under which the program names the file of node path p
KeyOf(p) == IF os_name = "nt" THEN lower_path(p) ELSE p

\* the node a selection names, when its path exists
Exists(sel) ==
  LET key == KeyOf(sel.path)
  IN \E n \in result.fs : Len(n.path) = Len(key) /\ KeyOf(n.path) = key
NodeOf(sel) ==
  LET key == KeyOf(sel.path)
  IN CHOOSE n \in result.fs : Len(n.path) = Len(key) /\ KeyOf(n.path) = key

IgnoredOrDotted(name) == name \in DEFAULT_TREE_IGNORED_NAMES \/ name[1] = "."

\* file node f lies under directory path top with no ignored-name or
\* dot-leading directory strictly between them
ReachableUnder(f, top) ==
  /\ ~f.is_dir
  /\ Len(top) < Len(f.path)
  /\ \A j \in 1..Len(top) : f.path[j] = top[j]
  /\ \A j \in (Len(top) + 1)..(Len(f.path) - 1) : ~IgnoredOrDotted(f.path[j])

\* the selection lists that hold the same selections in another order
Reorderings(sels) ==
  {[i \in 1..Len(sels) |-> sels[f[i]]] : f \in Permutations(1..Len(sels))}

\* C1: a path is a key of the inclusion map exactly when at least one
\* selection, resolved on its own, includes it, and every order of the same
\* selections yields the same key set.
C1_UnionProperty ==
  Generated =>
    /\ Keys = UNION {DOMAIN files_to_include(os_name, result.fs, <<result.selections[i]>>) :
                       i \in 1..NumSel}
    /\ \A perm \in Reorderings(result.selections) :
         DOMAIN files_to_include(os_name, result.fs, perm) = Keys

\* two selections overlap: some file is included by both, some by one only
C1_Witness ==
  /\ Generated
  /\ NumSel = 2
  /\ LET one == DOMAIN files_to_include(os_name, result.fs, <<result.selections[1]>>)
         two == DOMAIN files_to_include(os_name, result.fs, <<result.selections[2]>>)
     IN one \cap two # {} /\ one \ two # {} /\ two \ one # {}

\* C2: the artifact's own path is never a key of the inclusion map, whether a
\* file selection names it or a directory selection reaches it.
C2_SelfExclusion ==
  Generated => \A k \in Keys : k # KeyOf(ArtifactPath)

\* context.txt exists, a file selection names it and a directory selection
\* whose filter accepts it contains it
C2_Witness ==
  /\ Generated
  /\ context_txt_node \in result.fs
  /\ \E i, j \in 1..NumSel :
       /\ ~result.selections[i].is_directory
       /\ result.selections[i].path = KeyOf(ArtifactPath)
       /\ result.selections[j].is_directory
       /\ result.selections[j].path = KeyOf(project_path)
       /\ result.selections[j].file_types = NoneTypes
  /\ Keys # {}

\* C3: under an existing directory selection without a filter, every regular
\* file that is not below an ignored-name or dot-leading subdirectory, is not
\* a dotfile and is not the artifact is a key of the inclusion map; with the
\* project root selected so, the artifact is still not a key.
C3_UnfilteredDirectory ==
  Generated =>
    \A i \in 1..NumSel :
      LET sel == result.selections[i]
      IN (sel.is_directory /\ sel.file_types = NoneTypes /\ Exists(sel)) =>
           /\ \A f \in result.fs :
                ( /\ ReachableUnder(f, NodeOf(sel).path)
                  /\ basename(f.path)[1] # "."
                  /\ f.path # ArtifactPath )
                => KeyOf(f.path) \in Keys
           /\ KeyOf(ArtifactPath) \notin Keys

\* the root is selected without a filter, context.txt exists, and a file four
\* directories down is included
C3_Witness ==
  /\ Generated
  /\ context_txt_node \in result.fs
  /\ \E i \in 1..NumSel :
       /\ result.selections[i].is_directory
       /\ result.selections[i].file_types = NoneTypes
       /\ result.selections[i].path = KeyOf(project_path)
  /\ KeyOf(InProj(<<n_d1, n_d2, n_d3, n_d4, n_deep_py>>)) \in Keys


(***************************************************************************)
(* Vocabulary of the filter and tree properties.                           *)
(***************************************************************************)
Sel(i) == result.selections[i]

\* the selection is a directory selection whose path exists
ExistingDir(sel) == sel.is_directory /\ Exists(sel) /\ NodeOf(sel).is_dir

StrictPrefix(p, q) == Len(p) < Len(q) /\ \A j \in 1..Len(p) : p[j] = q[j]

\* some selection names exactly the node path p
Selected(p) == \E i \in 1..NumSel : Sel(i).path = KeyOf(p)

\* some selection names a path strictly below the node path p
HasSelectedDescendant(p) == \E i \in 1..NumSel : StrictPrefix(KeyOf(p), Sel(i).path)

\* some token of the filter matches the name without regard to letter case:
\* a dot-token as a suffix, any other token as the whole name
TokenMatchesIgnoringCase(ft, name) ==
  \E i \in 1..Len(ft) :
    LET t == strip(ft[i])
    IN /\ t # <<>>
       /\ IF t[1] = "." THEN endswith(lower(name), lower(t)) ELSE lower(name) = lower(t)

\* some dot-token of the filter is literally a suffix of the name
DotTokenIsSuffix(ft, name) ==
  \E i \in 1..Len(ft) :
    LET t == strip(ft[i]) IN t # <<>> /\ t[1] = "." /\ endswith(name, t)

EntryLines ==
  {result.summary_lines[i] : i \in {j \in 1..Len(result.summary_lines) :
                                      result.summary_lines[j].kind = "entry"}}

\* the tree lines rendered for the node path p of the project
LinesOf(p) == {l \in EntryLines : project_path \o l.rel = p}

InsideProject(p) == StrictPrefix(project_path, p)

\* C4: filter tokens match without regard to letter case: under a directory
\* selection with a filter, every file whose name ends with a dot-token or
\* equals another token, letter case ignored, is included (".py,.md" includes
\* notes.md and NOTES.MD), and ".py,.md" alone does not include image.png.
C4_CaseInsensitiveTokens ==
  Generated =>
    /\ \A i \in 1..NumSel :
         (ExistingDir(Sel(i)) /\ truthy(Sel(i).file_types)) =>
           \A f \in result.fs :
             ( /\ ReachableUnder(f, NodeOf(Sel(i)).path)
               /\ f.path # ArtifactPath
               /\ TokenMatchesIgnoringCase(Sel(i).file_types, basename(f.path)) )
             => KeyOf(f.path) \in Keys
    /\ (NumSel = 1 /\ Sel(1).is_directory /\ Sel(1).file_types = FT_py_md) =>
         \A k \in Keys : basename(k) # n_image_png

\* C5: in the resolver and in the tree, a token without a leading dot includes
\* a file only when the whole name equals it, and a token with a leading dot
\* includes every file whose name ends with it.
C5_TokenAsymmetry ==
  (Generated /\ NumSel = 1 /\ ExistingDir(Sel(1)) /\ truthy(Sel(1).file_types)) =>
    \A f \in result.fs :
      (ReachableUnder(f, NodeOf(Sel(1)).path) /\ f.path # ArtifactPath) =>
        LET name == basename(f.path)
            in_map == KeyOf(f.path) \in Keys
            starred == \E l \in LinesOf(f.path) : l.mark = " [*]"
        IN /\ (in_map \/ starred) => TokenMatchesIgnoringCase(Sel(1).file_types, name)
           /\ DotTokenIsSuffix(Sel(1).file_types, name) =>
                /\ in_map
                /\ \A l \in LinesOf(f.path) : l.mark = " [*]"

\* C6: the walk of a directory selection D descends into an ignored-name or
\* dot-leading subdirectory that is itself another selection and applies D's
\* filter to its files; with D unfiltered every file of that subdirectory is
\* in the inclusion map.
C6_SelectedSubdirectoryWalked ==
  Generated =>
    \A i, j \in 1..NumSel :
      ( /\ i # j
        /\ ExistingDir(Sel(i)) /\ ExistingDir(Sel(j))
        /\ StrictPrefix(NodeOf(Sel(i)).path, NodeOf(Sel(j)).path)
        /\ IgnoredOrDotted(basename(NodeOf(Sel(j)).path))
        /\ \A k \in (Len(NodeOf(Sel(i)).path) + 1)..(Len(NodeOf(Sel(j)).path) - 1) :
             ~IgnoredOrDotted(NodeOf(Sel(j)).path[k]) )
      => \A f \in result.fs :
           ( /\ ReachableUnder(f, NodeOf(Sel(j)).path)
             /\ f.path # ArtifactPath
             /\ \/ ~truthy(Sel(i).file_types)
                \/ TokenMatchesIgnoringCase(Sel(i).file_types, basename(f.path)) )
           => KeyOf(f.path) \in Keys

\* C7: every file that is a key of the inclusion map and lies inside the
\* project root has a line in the rendered tree marked [*].
C7_IncludedFilesAreStarred ==
  Generated =>
    \A f \in result.fs :
      (~f.is_dir /\ InsideProject(f.path) /\ KeyOf(f.path) \in Keys) =>
        \E l \in LinesOf(f.path) : l.mark = " [*]"

\* C8: every file line of the rendered tree marked [*] names a key of the
\* inclusion map.
C8_StarredFilesAreIncluded ==
  Generated =>
    \A l \in EntryLines :
      (~l.is_dir /\ l.mark = " [*]") => KeyOf(project_path \o l.rel) \in Keys


\* the name is one the tree leaves out unless the entry is itself selected
TreeHidden(name) ==
  name[1] = "." \/ name \in DEFAULT_TREE_IGNORED_NAMES \/ name = context_txt_leaf_name

\* the entry at node path p is listed when its directory is rendered
Listed(p) == ~TreeHidden(basename(p)) \/ Selected(p)

ChildrenOf(d) == {c \in result.fs : Len(c.path) = Len(d.path) + 1 /\ StrictPrefix(d.path, c.path)}

ProjectDirs == {d \in result.fs : d.is_dir /\ InsideProject(d.path)}

C10_UnrelatedDirectoriesUnmarked ==
  Generated =>
    \A l \in EntryLines :
      ( /\ l.is_dir
        /\ ~Selected(project_path \o l.rel)
        /\ ~HasSelectedDescendant(project_path \o l.rel) )
      => l.mark = ""

\* the project root is selected and a directory below it, neither selected
\* nor above a selection, is rendered
C10_Witness ==
  /\ Generated
  /\ Selected(project_path)
  /\ \E l \in EntryLines :
       /\ l.is_dir
       /\ ~Selected(project_path \o l.rel)
       /\ ~HasSelectedDescendant(project_path \o l.rel)
       /\ \E f \in EntryLines : ~f.is_dir /\ dirname(f.rel) = l.rel /\ f.mark = " [*]"


(***************************************************************************)
(* Vocabulary of the warning properties.                                   *)
(***************************************************************************)
\* the positions of the selections whose path does not exist
MissingIdx == {i \in 1..NumSel : ~Exists(Sel(i))}

\* the selection list without the selections whose path does not exist
PresentSelections == SelectSeq(result.selections, LAMBDA s : Exists(s))

\* the path a warning names: relative to the root for a path under the root,
\* the stored path otherwise
NamedInWarning(sel) ==
  IF StrictPrefix(KeyOf(project_path), sel.path)
  THEN [kind |-> "relative", path |-> SubSeq(sel.path, Len(project_path) + 1, Len(sel.path))]
  ELSE [kind |-> "absolute", path |-> sel.path]

\* C11: every selection whose path does not exist yields exactly one warning
\* line that names it (relative to the root when under the root, the stored
\* path otherwise) and no key of the inclusion map, and the other selections
\* are resolved exactly as if the missing ones were absent.
C11_MissingSelectionWarned ==
  Generated =>
    /\ Len(result.warnings) = Cardinality(MissingIdx)
    /\ \A i \in MissingIdx :
         /\ Cardinality({w \in 1..Len(result.warnings) :
                           result.warnings[w] = NamedInWarning(Sel(i))}) = 1
         /\ \A k \in Keys : k # Sel(i).path /\ ~StrictPrefix(Sel(i).path, k)
    /\ result.files_to_include = files_to_include(os_name, result.fs, PresentSelections)

\* a missing file under the root is selected next to a directory that
\* contributes keys
C11_Witness ==
  /\ Generated
  /\ \E i \in MissingIdx : StrictPrefix(KeyOf(project_path), Sel(i).path)
  /\ \E j \in 1..NumSel : ExistingDir(Sel(j))
  /\ Keys # {}

(***************************************************************************)
(* Vocabulary of the content properties.                                   *)
(***************************************************************************)
OutLines == result.context_content_lines

HeaderKinds == {"file_header", "binary_header", "error_header"}

HeaderIdx == {i \in 1..Len(OutLines) : OutLines[i].kind \in HeaderKinds}

\* the file node a key of the inclusion map names
NodeOfKey(k) == CHOOSE n \in result.fs : Len(n.path) = Len(k) /\ KeyOf(n.path) = k

\* the number of bytes of a content before its i-th run
RECURSIVE BytesBefore(_, _)
BytesBefore(content, i) == IF i <= 1 THEN 0 ELSE BytesBefore(content, i - 1) + content[i - 1].n

NulInFirstBytes(content, size) ==
  \E i \in 1..Len(content) : content[i].c = "NUL" /\ BytesBefore(content, i) < size

\* the content without the blanks before its first and after its last
\* non-blank byte
Stripped(content) ==
  LET inner == {i \in 1..Len(content) : content[i].c # " "}
  IN IF inner = {} THEN <<>>
     ELSE SubSeq(content, CHOOSE a \in inner : \A b \in inner : a <= b,
                          CHOOSE a \in inner : \A b \in inner : a >= b)

\* the name of the file ends with an extension of the binary set
ExtensionInBinarySet(n) ==
  \E ext \in BINARY_EXTENSIONS \cup RASTER_IMAGE_EXTENSIONS \cup SVG_IMAGE_EXTENSIONS :
    Len(ext) <= Len(basename(n.path))
    /\ \A j \in 1..Len(ext) : basename(n.path)[Len(basename(n.path)) - Len(ext) + j] = ext[j]

\* the block the file of key k is to get
ExpectedBlock(k) ==
  LET n == NodeOfKey(k)
      d == result.files_to_include[k]
  IN IF ExtensionInBinarySet(n) \/ n.path \in Unreadable \/ NulInFirstBytes(content_of(n.path), 1024)
     THEN << [kind |-> "binary_header", display |-> d, text |-> <<>>],
             [kind |-> "file_footer", display |-> d, text |-> <<>>] >>
     ELSE IF n.path \in result.read_raises
     THEN << [kind |-> "error_header", display |-> d, text |-> <<>>],
             [kind |-> "error_text", display |-> d, text |-> <<>>],
             [kind |-> "error_footer", display |-> d, text |-> <<>>] >>
     ELSE << [kind |-> "file_header", display |-> d, text |-> <<>>],
             [kind |-> "content", display |-> d, text |-> Stripped(content_of(n.path))],
             [kind |-> "file_footer", display |-> d, text |-> <<>>] >>

\* the lines of the output from position i on are the block b
BlockAt(i, b) == i + Len(b) - 1 <= Len(OutLines) /\ SubSeq(OutLines, i, i + Len(b) - 1) = b

\* C12: the output holds exactly one block per key of the inclusion map: a
\* "(Skipped Binary File)" header/footer pair when the file's extension is in
\* the binary set, a NUL byte is among its first 1024 bytes or the sniff read
\* fails; an "Error reading file" block when the text read raises; otherwise
\* a File block with the stripped content.  A failure on one file leaves the
\* blocks of the other files as they are.
C12_OneBlockPerKey ==
  Generated =>
    /\ Cardinality(HeaderIdx) = Cardinality(Keys)
    /\ \A k \in Keys :
         Cardinality({i \in HeaderIdx : BlockAt(i, ExpectedBlock(k))})
           = Cardinality({k2 \in Keys : ExpectedBlock(k2) = ExpectedBlock(k)})

\* the text of a display path
RECURSIVE Joined(_)
Joined(p) ==
  IF Len(p) = 1 THEN p[1]
  ELSE p[1] \o <<IF os_name = "nt" THEN "\\" ELSE "/">> \o Joined(Tail(p))

DisplayText(d) ==
  IF d.kind = "relative" THEN Joined(d.path)
  ELSE IF d.kind = "EXTERNAL"
  THEN <<"E","X","T","E","R","N","A","L",":">> \o d.path[1]
       \o (IF d.from = <<>> THEN <<>>
           ELSE <<" ","(","f","r","o","m"," ">> \o d.from[1]
                \o <<IF os_name = "nt" THEN "\\" ELSE "/">> \o <<".",".",".",")">>)
  ELSE <<IF os_name = "nt" THEN "\\" ELSE "/">> \o Joined(d.path)

\* C13: the content blocks appear in the order of their display paths
\* compared without regard to letter case.
C13_BlocksSortedIgnoringCase ==
  Generated =>
    \A i, j \in HeaderIdx :
      i < j => ~str_lt(lower(DisplayText(OutLines[j].display)),
                       lower(DisplayText(OutLines[i].display)))

BlockKinds ==
  {"file_header", "binary_header", "error_header", "content", "error_text",
   "file_footer", "error_footer"}

\* C14: the output starts with the structure section (header, tree, end
\* line); every warning line comes next, before the first content block; the
\* blocks follow with no warning between or after them.
C14_SectionOrder ==
  Generated =>
    /\ Len(OutLines) >= 3
    /\ OutLines[1].kind = "structure_header"
    /\ OutLines[2].kind = "structure"
    /\ OutLines[3].kind = "structure_end"
    /\ \E missing \in {Cardinality(MissingIdx)} :
         \A i \in 4..Len(OutLines) :
           IF i <= 3 + missing
           THEN OutLines[i].kind = "warning"
           ELSE OutLines[i].kind \in BlockKinds

\* a directory selection that contributes blocks is followed, in the
\* selection list, by a selection whose path is missing
C14_Witness ==
  /\ Generated
  /\ \E i, j \in 1..NumSel : i < j /\ ExistingDir(Sel(i)) /\ j \in MissingIdx
  /\ Cardinality(HeaderIdx) >= 2
  /\ \E i \in 1..Len(OutLines) : OutLines[i].kind = "warning"

\* C15: the lines returned for a selection list and a filesystem do not
\* depend on the order in which the filesystem lists directory entries: every
\* listing order yields the lines that were returned.
C15_IndependentOfListingOrder ==
  Generated =>
    \A enum \in Enumerations :
      generate_context_file_data(os_name, result.fs, result.selections, enum, result.read_raises)
        = OutLines

\* the entry lines rendered for entries below the directory of line l
LinesBelow(l) == {c \in EntryLines : StrictPrefix(l.rel, c.rel)}

\* the depth of a line's entry below the project root, root children at 1
Depth(l) == Len(l.rel)

\* C16: a directory that is neither explicitly selected nor an ancestor of an
\* explicitly selected path is rendered as one line; its listed children are
\* rendered while its depth below the root is at most 3, and a deeper such
\* directory has no line below it, also inside a selected directory.
C16_DepthCutoff ==
  Generated =>
    \A l \in EntryLines :
      ( /\ l.is_dir
        /\ ~Selected(project_path \o l.rel)
        /\ ~HasSelectedDescendant(project_path \o l.rel) )
      => /\ Cardinality(LinesOf(project_path \o l.rel)) = 1
         /\ IF Depth(l) <= 3
            THEN \A c \in ChildrenOf(NodeOfKey(KeyOf(project_path \o l.rel))) :
                   Listed(c.path) => LinesOf(c.path) # {}
            ELSE LinesBelow(l) = {}

\* the project root is selected; below it an unselected directory at depth 3
\* has its child rendered and the unselected directory at depth 4, which
\* holds a file, has none
C16_Witness ==
  /\ Generated
  /\ Selected(project_path)
  /\ \E l3, l4 \in EntryLines :
       /\ l3.is_dir /\ Depth(l3) = 3 /\ l4.is_dir /\ Depth(l4) = 4
       /\ dirname(l4.rel) = l3.rel
       /\ ~HasSelectedDescendant(project_path \o l3.rel)
       /\ LinesBelow(l4) = {}
       /\ \E c \in ChildrenOf(NodeOfKey(KeyOf(project_path \o l4.rel))) : Listed(c.path)

\* the directories whose entries the tree lists: the project root, and every
\* rendered directory that is selected, above a selection or at depth 1 to 3
ListedDirs ==
  {d \in result.fs :
     /\ d.is_dir
     /\ \/ d.path = project_path
        \/ /\ LinesOf(d.path) # {}
           /\ \/ Selected(d.path)
              \/ HasSelectedDescendant(d.path)
              \/ Len(d.path) - Len(project_path) <= 3}

\* C17: an entry whose name starts with a dot or is in the ignored-name set
\* has a line in the tree only if it is itself an explicit selection, and
\* has one whenever it is one and its directory is listed; every other entry
\* of a listed directory has a line.
C17_HiddenUnlessSelected ==
  Generated =>
    /\ \A l \in EntryLines : TreeHidden(basename(l.rel)) => Selected(project_path \o l.rel)
    /\ \A d \in ListedDirs : \A c \in ChildrenOf(d) :
         (~TreeHidden(basename(c.path)) \/ Selected(c.path)) => LinesOf(c.path) # {}

\* the ignored-name directory build is selected and rendered, the dot-leading
\* directory .git next to it is not selected and not rendered, a.py is
C17_Witness ==
  /\ Generated
  /\ Selected(InProj(<<n_build>>))
  /\ LinesOf(InProj(<<n_build>>)) # {}
  /\ ~Selected(InProj(<<n_dotgit>>))
  /\ LinesOf(InProj(<<n_dotgit>>)) = {}
  /\ LinesOf(InProj(<<n_a_py>>)) # {}

\* the positions of the selections that are neither the root nor below it
OutsideIdx ==
  {i \in 1..NumSel : Sel(i).path # KeyOf(project_path)
                     /\ ~StrictPrefix(KeyOf(project_path), Sel(i).path)}

SummaryLines == result.summary_lines

\* the text of an absolute path
PathText(p) == <<IF os_name = "nt" THEN "\\" ELSE "/">> \o Joined(p)

\* C18: the selections that are neither the project root nor below it are
\* rendered after the tree under one heading, one line each, sorted by path,
\* marked [*] and, for a directory, followed by its filter text or ALL; the
\* heading and the section exist exactly when there is such a selection; no
\* line of the tree names one.
C18_OutsideSection ==
  Generated =>
    LET n == Len(SummaryLines)
        m == Cardinality(OutsideIdx)
        first == n - m + 1
    IN /\ \A j \in 1..n :
            /\ SummaryLines[j].kind = "outside" <=> (m > 0 /\ j >= first)
            /\ SummaryLines[j].kind = "outside_heading" <=> (m > 0 /\ j = first - 1)
       /\ \A i \in OutsideIdx :
            /\ Cardinality({j \in 1..n : /\ SummaryLines[j].kind = "outside"
                                         /\ SummaryLines[j].rel = Sel(i).path
                                         /\ SummaryLines[j].mark = " [*]"
                                         /\ SummaryLines[j].info =
                                              IF ~Sel(i).is_directory THEN <<>>
                                              ELSE IF Sel(i).file_types \in {<<>>, << <<>> >>}
                                              THEN << << <<"A","L","L">> >> >>
                                              ELSE <<Sel(i).file_types>>}) = 1
            /\ \A l \in EntryLines : KeyOf(project_path \o l.rel) # Sel(i).path
       /\ \A j, k \in 1..n :
            (j < k /\ SummaryLines[j].kind = "outside" /\ SummaryLines[k].kind = "outside")
            => str_lt(PathText(SummaryLines[j].rel), PathText(SummaryLines[k].rel))

\* two selections outside the root, the later one in the list a directory
\* whose path sorts first
C18_Witness ==
  /\ Generated
  /\ \E i, j \in OutsideIdx :
       i < j /\ Sel(j).is_directory /\ str_lt(PathText(Sel(j).path), PathText(Sel(i).path))


(***************************************************************************)
(* Claims about the store                                                  *)
(***************************************************************************)
\* the selection as it would be stored through the spelling p
StoredThrough(s, p) == [s EXCEPT !.path = normcase_path(os_name, p)]

\* C19: a spelling that differs from a stored selection's path only in
\* letter case normalises to that selection's key, is looked up as that
\* selection, and resolves to the same files and the same tree lines as it.
C19_SpellingsShareKey ==
  \A i \in 1..Len(selections), p \in StoreSpellings :
    nocase_eq(p, selections[i].path) =>
      /\ normcase_path(os_name, p) = selections[i].path
      /\ i \in get_selection_by_path(selections, selections[i].project_id, normcase_path(os_name, p))
      /\ resolve(os_name, fs, <<StoredThrough(selections[i], p)>>).files
           = resolve(os_name, fs, <<selections[i]>>).files
      /\ generate_project_tree_summary(os_name, fs, <<StoredThrough(selections[i], p)>>)
           = generate_project_tree_summary(os_name, fs, <<selections[i]>>)


\* at most one selection per (project id, case-insensitive path)
Unique(sels) ==
  \A i, j \in 1..Len(sels) :
    (sels[i].project_id = sels[j].project_id /\ nocase_eq(sels[i].path, sels[j].path)) => i = j

\* after is the table before with the row of (project_id, path) carrying the
\* call's category, file types and directory flag, and nothing else moved
UpdatedInPlace(before, after, project_id, path, is_directory, category_id, file_types) ==
  /\ Len(after) = Len(before)
  /\ \A i \in 1..Len(before) :
       IF before[i].project_id = project_id /\ nocase_eq(before[i].path, path)
       THEN after[i] = [project_id |-> project_id, path |-> before[i].path,
                        is_directory |-> is_directory, category_id |-> category_id,
                        file_types |-> file_types]
       ELSE after[i] = before[i]

\* C20: whatever calls were made, the store holds at most one selection per
\* (project id, case-insensitive path), and add_selection on a path already
\* selected in that project updates that selection's category, file types
\* and directory flag in place and leaves the number of selections unchanged.
C20_OneSelectionPerKey ==
  /\ Unique(selections)
  /\ \A inp \in StoreInputs, is_directory \in BOOLEAN, category_id \in {NoCategory} \cup CategoryIds,
        file_types \in {NoneTypes, FT_py_md} :
       get_selection_by_path(selections, inp[1], normcase_path(os_name, inp[2])) # {} =>
         /\ UpdatedInPlace(selections,
                           add_selection(selections, inp[1], normcase_path(os_name, inp[2]),
                                         is_directory, category_id, file_types),
                           inp[1], normcase_path(os_name, inp[2]), is_directory, category_id,
                           file_types)
         /\ Unique(add_selection(selections, inp[1], normcase_path(os_name, inp[2]),
                                 is_directory, category_id, file_types))

\* add_selection has updated a row of a table that holds a path in both
\* projects and another path; a directory row now carries a category and a
\* file type filter
C20_Witness ==
  /\ result.status = "selection_updated"
  /\ Len(selections) = 3
  /\ \E i \in 1..Len(selections) :
       /\ selections[i].is_directory
       /\ selections[i].category_id # NoCategory
       /\ selections[i].file_types = FT_py_md

(***************************************************************************)
(* Removing a category.                                                    *)
(***************************************************************************)
\* after is before with the category c taken off the selections that had it:
\* no row is deleted or added and no other column changes
Uncategorized(before, after, c) ==
  /\ Len(after) = Len(before)
  /\ \A i \in 1..Len(before) :
       /\ after[i].project_id = before[i].project_id
       /\ after[i].path = before[i].path
       /\ after[i].file_types = before[i].file_types
       /\ after[i].is_directory = before[i].is_directory
       /\ before[i].category_id = c => after[i].category_id = NoCategory
       /\ before[i].category_id # c => after[i].category_id = before[i].category_id

\* the ids of the categories removed so far
RemovedCategoryIds == (1..categories.seq) \ CategoryIds

\* C21: remove_category_and_uncategorize_items(c) sets the category of every
\* selection that referenced c to null, deletes category c, deletes no
\* selection and changes no other column nor the category of a selection not
\* referencing c; on a database error it returns False and leaves both tables
\* as they were.  Stated on the call in every reachable state of the tables,
\* and on the tables RemoveCategoryInDialog leaves.
C21_RemoveCategoryUncategorizes ==
  /\ \A c \in CategoryIds, db_error \in DbErrors :
       LET r == remove_category_and_uncategorize_items(selections, categories, c, db_error)
       IN IF db_error = "none"
          THEN /\ r.returned
               /\ Uncategorized(selections, r.selections, c)
               /\ r.categories.rows = {row \in categories.rows : row.id # c}
          ELSE /\ ~r.returned
               /\ r.selections = selections
               /\ r.categories = categories
  /\ result.status = "category_removed" =>
       \E c \in RemovedCategoryIds : Uncategorized(result.selections, selections, c)
  /\ result.status = "category_not_removed" => selections = result.selections

\* a category was removed that one selection had, while another selection
\* keeps the category it has
C21_Witness ==
  /\ result.status = "category_removed"
  /\ \E i \in 1..Len(selections) :
       /\ result.selections[i].category_id \in RemovedCategoryIds
       /\ selections[i].category_id = NoCategory
  /\ \E j \in 1..Len(selections) : selections[j].category_id \in CategoryIds

(***************************************************************************)
(* Display paths.                                                          *)
(***************************************************************************)
\* the key names a file below the project root
KeyInsideProject(k) == StrictPrefix(KeyOf(project_path), k)

\* the selection is neither the project root nor below it
SelectionOutside(sel) ==
  sel.path # KeyOf(project_path) /\ ~StrictPrefix(KeyOf(project_path), sel.path)

\* the selection, resolved on its own, includes the key
IncludedThrough(k, sel) == k \in DOMAIN files_to_include(os_name, result.fs, <<sel>>)

\* the display names the key by its path relative to the project root
RootRelative(k, d) ==
  /\ d.kind = "relative"
  /\ Len(d.path) = Len(k) - Len(project_path)
  /\ \A j \in 1..Len(d.path) : d.path[j] = k[Len(project_path) + j]

\* C22 as stated: a file included from inside the project root is named by
\* its path relative to the root, and a file included through a selection
\* lying outside the root is named by a display tagged EXTERNAL, never by a
\* root-relative path.
C22_ExternalThroughOutsideSelection ==
  Generated =>
    \A k \in Keys :
      /\ KeyInsideProject(k) => RootRelative(k, result.files_to_include[k])
      /\ \A i \in 1..NumSel :
           SelectionOutside(Sel(i)) /\ IncludedThrough(k, Sel(i))
             => result.files_to_include[k].kind = "EXTERNAL"

\* C22, amended: the display follows where the file lies, not where the
\* selection lies.  A file below the project root is named by its path
\* relative to the root, also when a selected ancestor directory of the root
\* includes it; a file not below the root is named by a display tagged
\* EXTERNAL that carries its base name only.
C22_DisplayFollowsFile ==
  Generated =>
    \A k \in Keys :
      IF KeyInsideProject(k)
      THEN RootRelative(k, result.files_to_include[k])
      ELSE /\ result.files_to_include[k].kind = "EXTERNAL"
           /\ result.files_to_include[k].path = <<k[Len(k)]>>

\* the filesystem root is selected: files of the project and files outside it
\* are included through it
C22_Witness ==
  /\ Generated
  /\ \E i \in 1..NumSel : Sel(i).path = <<>> /\ Sel(i).is_directory
  /\ \E k \in Keys : KeyInsideProject(k) /\ result.files_to_include[k].kind = "relative"
  /\ \E k \in Keys : ~KeyInsideProject(k) /\ result.files_to_include[k].kind = "EXTERNAL"

(***************************************************************************)
(* A project whose directory is gone.                                      *)
(***************************************************************************)
RootIsDirectory == \E n \in fs : n.path = project_path /\ n.is_dir

\* a step of drop_context: every other step discards the result
DropStep == result' # result /\ result'.status # "none"

\* C23: when the project root is no longer an existing directory,
\* generate_project_tree_summary returns the error message instead of a tree,
\* and drop_context aborts before generating: it produces no lines, writes no
\* file and leaves the selections, the categories and the active project as
\* they were.
C23_InvalidRootDegrades ==
  /\ [](~RootIsDirectory =>
          \A n \in 0..Len(selections) :
            generate_project_tree_summary(os_name, fs, SubSeq(selections, 1, n))
              = <<not_a_valid_directory>>)
  /\ [][(~RootIsDirectory /\ DropStep) =>
          /\ result'.status = "invalid_project_path"
          /\ result'.context_content_lines = <<>>
          /\ fs' = fs
          /\ selections' = selections
          /\ categories' = categories
          /\ projects' = projects]_vars

\* a drop was asked for with selections stored and the project directory gone
C23_Witness ==
  /\ result.status = "invalid_project_path"
  /\ ~RootIsDirectory
  /\ selections # <<>>
  /\ get_active_project(projects) # {}

(***************************************************************************)
(* A directory that cannot be listed.                                      *)
(***************************************************************************)
\* the drop ran while chmod_dir could not be listed
DroppedOnUnlistable ==
  Generated /\ \E n \in result.fs : n.path = chmod_dir /\ n.is_dir /\ ~n.listable

\* the filesystem of the drop with chmod_dir listable and empty
EmptiedFs ==
  {n \in result.fs : ~(n.path = chmod_dir \/ StrictPrefix(chmod_dir, n.path))}
    \cup {[path |-> chmod_dir, is_dir |-> TRUE, listable |-> TRUE]}

ListErrorIdx == {j \in 1..Len(result.summary_lines) : result.summary_lines[j].kind = "list_error"}

\* C24: when a directory cannot be listed during a walk, only its subtree is
\* skipped.  The tree has one error line for it, directly below its own line,
\* and is otherwise the tree of the same disk with the directory empty; a
\* directory selection contributes the files it contributes with the
\* directory empty, so none from the directory; the only keys below the
\* directory are file selections themselves.
C24_UnlistableSubtreeSkipped ==
  DroppedOnUnlistable =>
    /\ Cardinality(ListErrorIdx) = 1
    /\ \A j \in ListErrorIdx :
         /\ result.summary_lines[j].rel = SubSeq(chmod_dir, Len(project_path) + 1, Len(chmod_dir))
         /\ j > 1
         /\ result.summary_lines[j - 1].kind = "entry"
         /\ result.summary_lines[j - 1].rel = result.summary_lines[j].rel
    /\ SelectSeq(result.summary_lines, LAMBDA l : l.kind # "list_error")
         = generate_project_tree_summary(os_name, EmptiedFs, result.selections)
    /\ \A i \in 1..NumSel :
         Sel(i).is_directory =>
           files_to_include(os_name, result.fs, <<Sel(i)>>)
             = files_to_include(os_name, EmptiedFs, <<Sel(i)>>)
    /\ \A k \in Keys :
         StrictPrefix(KeyOf(chmod_dir), k) =>
           \E i \in 1..NumSel : ~Sel(i).is_directory /\ Sel(i).path = k
    /\ \A k \in Keys :
         ~StrictPrefix(KeyOf(chmod_dir), k) =>
           /\ k \in DOMAIN files_to_include(os_name, EmptiedFs, result.selections)
           /\ result.files_to_include[k] = files_to_include(os_name, EmptiedFs, result.selections)[k]

\* the project root is selected while sub cannot be listed: the sibling up
\* still gives its file
C24_Witness ==
  /\ DroppedOnUnlistable
  /\ \E i \in 1..NumSel : Sel(i).is_directory /\ Sel(i).path = KeyOf(project_path)
  /\ KeyOf(project_path \o <<n_up, n_e_py>>) \in Keys
  /\ ListErrorIdx # {}

(***************************************************************************)
(* The asterisks of the file tree.                                         *)
(***************************************************************************)
\* get_effective_selections_for_display and the selections drop_context reads
EffectiveSelections == get_selections(selections, current_project_id)

\* C25: the inclusion map behind the asterisks of the file tree and the
\* inclusion map of the next drop have the same keys, for every selection
\* list and filesystem.
C25_AsterisksMatchArtifact ==
  get_detailed_inclusion_map(os_name, fs, EffectiveSelections)
    = DOMAIN files_to_include(os_name, fs, EffectiveSelections)

(***************************************************************************)
(* Block headers name one file.                                            *)
(***************************************************************************)
\* C26: distinct keys of the inclusion map have distinct display paths, so
\* every block header of the artifact identifies exactly one file.
C26_DisplayPathsDistinct ==
  Generated =>
    \A k1 \in Keys, k2 \in Keys :
      k1 # k2 => DisplayText(result.files_to_include[k1]) # DisplayText(result.files_to_include[k2])

(***************************************************************************)
(* Deleting a project.                                                     *)
(***************************************************************************)
ProjectExists(project_id) == \E r \in projects.rows : r.id = project_id

\* C27: after delete_project(p) no category and no selection of project p
\* remains, so every category and every selection references an existing
\* project after any sequence of project, category and selection operations.
C27_NoOrphanRows ==
  /\ \A c \in categories.rows : ProjectExists(c.project_id)
  /\ \A i \in 1..Len(selections) : ProjectExists(selections[i].project_id)

(***************************************************************************)
(* Saving the prompt guide.                                                *)
(***************************************************************************)
\* the edit waiting to be saved is the text of the editor of its project,
\* and the timer that will save it is running
StillToBeSaved ==
  /\ window.open
  /\ window.current_project_id = window.unsaved.project_id
  /\ window.prompt_edit = window.unsaved.text
  /\ window.prompt_save_timer

\* C28: every edit of the prompt guide made while project A is open reaches
\* A's record, when the timer fires or when the window closes, and is never
\* lost, for any interleaving of edits, timer expiry, project switch, project
\* deletion and close.  Until it is saved, the last edit of a project that
\* still exists has to be what the timer or closeEvent will write.
C28_EditsAreNotLost ==
  (window.unsaved # NoEdit /\ ProjectExists(window.unsaved.project_id)) => StillToBeSaved

\* ---------------------------------------------------------------------------
\* The hover icon (hover_icon.py): press, move, long press and release
\* ---------------------------------------------------------------------------

DRAG_THRESHOLD == 5

ICON_DISPLAY_HEIGHT == 64

ICON_AREA_HEIGHT == 64

button_height == 20

\* setFixedSize(icon_area_width, ICON_AREA_HEIGHT + 2 + button_height)
widget_height == ICON_AREA_HEIGHT + 2 + button_height

\* The pointer moves on one vertical line of the widget, so a position is its
\* local y; the icon is the top of the widget and the buttons are below it.
icon_display_rect_top == (ICON_AREA_HEIGHT - ICON_DISPLAY_HEIGHT) \div 2

icon_display_rect_contains(y) ==
  y >= icon_display_rect_top /\ y < icon_display_rect_top + ICON_DISPLAY_HEIGHT

in_widget(y) == y >= 0 /\ y < widget_height

manhattanLength(d) == IF d < 0 THEN 0 - d ELSE d

\* local positions: on the icon (three of them within the threshold of each
\* other or beyond it), under the icon inside the widget, outside the widget
PointerPositions == {0, 50, 57, 60, 63, 64, 70, 90}

Buttons == {"left", "right"}

\* _initiate_drag_from_long_press
initiate_drag_from_long_press(ic) ==
  IF ic.is_potential_click /\ ~ic.is_dragging
  THEN [ic EXCEPT !.is_dragging = TRUE, !.is_potential_click = FALSE]
  ELSE ic

\* mousePressEvent: a left press on the icon begins a click or a drag, every
\* other press goes to QWidget
mousePressEvent(ic, button, pos) ==
  IF button = "left" /\ icon_display_rect_contains(pos)
  THEN [ic EXCEPT !.mouse_press_pos_local = pos,
                  !.is_dragging = FALSE,
                  !.is_potential_click = TRUE,
                  !.long_press_timer = TRUE]
  ELSE ic

\* mouseMoveEvent with event.buttons() = held and event.position() = pos
mouseMoveEvent(ic, held, pos) ==
  IF held = {"left"}
  THEN IF /\ ic.is_potential_click
          /\ ~ic.is_dragging
          /\ manhattanLength(pos - ic.mouse_press_pos_local) > DRAG_THRESHOLD
       THEN [ic EXCEPT !.long_press_timer = FALSE,
                       !.is_dragging = TRUE,
                       !.is_potential_click = FALSE]
       ELSE ic
  ELSE ic

\* self.move(event.globalPosition().toPoint() - self._drag_start_offset): the
\* widget follows the pointer, which is then over the point of the press again
moves_widget(ic, held) == held = {"left"} /\ ic.is_dragging

\* mouseReleaseEvent: the fields after it, whether save_current_position was
\* called and whether drop_context_requested was emitted
mouseReleaseEvent(ic, button, pos) ==
  IF button = "left"
  THEN LET was_dragging == ic.is_dragging
           is_click_on_icon == ic.is_potential_click /\ icon_display_rect_contains(pos)
       IN [icon |-> [ic EXCEPT !.long_press_timer = FALSE,
                               !.is_dragging = FALSE,
                               !.is_potential_click = FALSE],
           saved |-> was_dragging,
           emitted |-> ~was_dragging /\ is_click_on_icon]
  ELSE [icon |-> ic, saved |-> FALSE, emitted |-> FALSE]

\* The window is open on a project without selections and the icon is at rest.
HoverInit ==
  /\ os_name \in {"posix", "nt"}
  /\ fs = FixedNodes
  /\ selections = <<>>
  /\ categories = NoCategories
  /\ result = NoResult
  /\ projects = OneProject
  /\ foreign_keys = FALSE
  /\ window = WindowOn(current_project_id, DEFAULT_NEW_PROJECT_PROMPT)
  /\ icon = IconAtRest

\* A button that is up goes down where the pointer is: over the widget, or
\* anywhere while the widget has the mouse because another button is down.
MousePress ==
  /\ in_widget(icon.pointer) \/ icon.buttons # {}
  /\ \E button \in Buttons \ icon.buttons :
      \E ic \in {mousePressEvent(icon, button, icon.pointer)} :
       icon' = [ic EXCEPT
                  !.buttons = @ \cup {button},
                  !.gesture = IF button = "left" /\ icon_display_rect_contains(icon.pointer)
                              THEN [NoGesture EXCEPT !.active = TRUE] ELSE @,
                  !.outcome = IF button = "left" /\ icon_display_rect_contains(icon.pointer)
                              THEN NoOutcome ELSE @]
  /\ UNCHANGED <<os_name, fs, selections, categories, result, projects, foreign_keys, window>>

\* The pointer goes to another position; the widget gets the event when the
\* position is over it (mouse tracking) or a button is down.
MouseMove ==
  /\ \E pos \in PointerPositions \ {icon.pointer} :
      IF in_widget(pos) \/ icon.buttons # {}
      THEN \E ic \in {mouseMoveEvent(icon, icon.buttons, pos)} :
            icon' = [ic EXCEPT
                       !.pointer = IF moves_widget(ic, icon.buttons)
                                   THEN ic.mouse_press_pos_local ELSE pos,
                       !.gesture.moved_beyond =
                          \/ @
                          \/ /\ icon.gesture.active
                             /\ manhattanLength(pos - icon.mouse_press_pos_local) > DRAG_THRESHOLD]
      ELSE icon' = [icon EXCEPT !.pointer = pos]
  /\ UNCHANGED <<os_name, fs, selections, categories, result, projects, foreign_keys, window>>

\* _long_press_timer.timeout, LONG_PRESS_DURATION after the press
LongPressTimeout ==
  /\ icon.long_press_timer
  /\ icon' = [initiate_drag_from_long_press(icon) EXCEPT
                !.long_press_timer = FALSE,
                !.gesture.timer_fired = icon.gesture.active]
  /\ UNCHANGED <<os_name, fs, selections, categories, result, projects, foreign_keys, window>>

\* A button that is down goes up where the pointer is. drop_context_requested
\* is connected to MainWindow.drop_context, which runs before the handler
\* returns; the project has no selections here.
MouseRelease ==
  /\ \E button \in icon.buttons :
      \E r \in {mouseReleaseEvent(icon, button, icon.pointer)} :
       /\ icon' = [r.icon EXCEPT
                     !.buttons = @ \ {button},
                     !.gesture = IF button = "left" THEN NoGesture ELSE @,
                     !.outcome =
                        IF button = "left" /\ icon.gesture.active
                        THEN [ended |-> TRUE,
                              became_drag |-> icon.is_dragging,
                              saved |-> r.saved,
                              emitted |-> IF r.emitted THEN @.emitted + 1 ELSE @.emitted,
                              moved_beyond |-> icon.gesture.moved_beyond,
                              timer_fired |-> icon.gesture.timer_fired,
                              release_on_icon |-> icon_display_rect_contains(icon.pointer)]
                        ELSE [@ EXCEPT !.emitted = IF r.emitted THEN @ + 1 ELSE @]]
       /\ result' = IF ~r.emitted THEN result
                    ELSE IF ~isdir(os_name, fs, project_path)
                         THEN [NoResult EXCEPT !.status = "invalid_project_path"]
                         ELSE [NoResult EXCEPT !.status = "no_selections"]
  /\ UNCHANGED <<os_name, fs, selections, categories, projects, foreign_keys, window>>

HoverNext ==
  \/ MousePress
  \/ MouseMove
  \/ LongPressTimeout
  \/ MouseRelease

HoverSpec == HoverInit /\ [][HoverNext]_vars

\* C29: a left-button press-release sequence on the icon emits
\* drop_context_requested at most once, and only if the pointer never moved
\* beyond the drag threshold, the long-press timer did not fire and the release
\* is on the icon; a sequence that became a drag saves the position and emits
\* nothing; after the release both flags are false.
C29_GestureOutcome ==
  /\ icon.outcome.emitted <= 1
  /\ icon.outcome.emitted = 1 =>
       /\ ~icon.outcome.moved_beyond
       /\ ~icon.outcome.timer_fired
       /\ icon.outcome.release_on_icon
  /\ icon.outcome.became_drag => icon.outcome.saved /\ icon.outcome.emitted = 0
  /\ ~icon.gesture.active /\ "left" \notin icon.buttons =>
       ~icon.is_dragging /\ ~icon.is_potential_click

\* C30: at most one project is marked active in every state reached through
\* add_project, set_active_project, delete_project and project switches;
\* set_active_project(p) leaves exactly p active when p exists and none when p
\* is None; deleting the active project leaves no project active.
C30_AtMostOneActive ==
  /\ Cardinality(get_active_project(projects)) <= 1
  /\ \A r \in projects.rows :
       get_active_project(set_active_project(projects, r.id)) = {[r EXCEPT !.is_active = TRUE]}
  /\ get_active_project(set_active_project(projects, NoProject)) = {}
  /\ \A a \in get_active_project(projects) :
       get_active_project(delete_project(projects, a.id)) = {}

\* the active project was deleted in the window and the one that is left
\* has not been activated
C30_Witness ==
  /\ window.open
  /\ projects.seq > Cardinality(projects.rows)
  /\ projects.rows # {}
  /\ get_active_project(projects) = {}

====
